---- MODULE Spec2Model ----
(***************************************************************************)
(* Model of the cron pipeline of esp_uno_ft811:                            *)
(*   src/app/api/cron/route.ts      GET, commitToGitHub, readFromGitHub,   *)
(*                                  filterData                             *)
(*   src/app/api/cron-fgi/route.js  GET (the FGI updater)                  *)
(* The GitHub contents API is the versioned store: a document has a        *)
(* revision (its sha); a PUT is accepted when it creates an absent         *)
(* document without a sha or carries the sha of the current revision.      *)
(* Every await of a handler is one step, so runs interleave at the awaits. *)
(* Spec is the store with two cron invocations and one FGI updater;        *)
(* SpecPure applies filterData and the merge step to a family of inputs.   *)
(* A PUT that takes effect while its response is lost is not modelled.     *)
(***************************************************************************)
EXTENDS Integers, Sequences, FiniteSets, TLC

----------------------------------------------------------------------------
(* Bounds *)

\* number of handler invocations (cron and cron-fgi together) in a behaviour
MaxRuns == 2
\* largest number of filler assets in a snapshot handed to filterData
MaxFill == 17
\* number of steps of the clock in a behaviour of the update handler
MaxTicks == 5

(* Program constants *)

\* .slice(0, 16) in filterData
Capacity == 16
\* regenerate-light/route.ts:173
RegenCapacity == 50
prioritySymbols == <<"BTC", "ETH", "SOL", "BNB">>
FGISymbol == "FGI"

----------------------------------------------------------------------------
(* JSON values.  A name is a sequence of fragments, so that                *)
(* String.includes(sub) is "sub is one of the fragments" (case-sensitive: *)
(* "wrapped" and "Wrapped" are different fragments).  percentChange.h24    *)
(* is <<>> when percentChange or h24 is absent or null, <<v>> otherwise.   *)

Asset(sym, name, price, pch) ==
  [symbol |-> sym, hasName |-> TRUE, name |-> name, price |-> price, pch |-> pch]

NoNameAsset(sym, price, pch) ==
  [symbol |-> sym, hasName |-> FALSE, name |-> <<>>, price |-> price, pch |-> pch]

Entry(sym, name, price, h24) ==
  [symbol |-> sym, name |-> name, price |-> price, h24 |-> h24]

\* kinds of JSON value: "list" (an array), "wrapped" ({data: array}),
\* "object" ({}), "baddata" ({data: 5}), "number", "string", "null"
JList(items)    == [kind |-> "list",    items |-> items]
JWrapped(items) == [kind |-> "wrapped", items |-> items]
JOther(kind)    == [kind |-> kind,      items |-> <<>>]

\* a stored text that is not JSON
Garbage == [kind |-> "garbage", items |-> <<>>]

Min(a, b) == IF a <= b THEN a ELSE b

MinOf(S) == CHOOSE x \in S : \A y \in S : x <= y

\* String.prototype.includes
Includes(name, sub) == \E i \in 1..Len(name) : name[i] = sub

\* variant with a fault: the last entry with the symbol, not the first
FindSymbol_Last(s, sym) ==
  LET idx == {i \in 1..Len(s) : s[i].symbol = sym}
  IN  IF idx = {} THEN <<>> ELSE <<s[CHOOSE i \in idx : \A j \in idx : j <= i]>>

\* Array.prototype.find on the symbol: <<>> for undefined, <<e>> for a hit
FindSymbol(s, sym) ==
  LET idx == {i \in 1..Len(s) : s[i].symbol = sym}
  IN  IF idx = {} THEN <<>> ELSE <<s[MinOf(idx)]>>

HasSymbol(s, sym) == \E i \in 1..Len(s) : s[i].symbol = sym

CountSymbol(s, sym) == Cardinality({i \in 1..Len(s) : s[i].symbol = sym})

----------------------------------------------------------------------------
(* filterData, src/app/api/cron/route.ts:89-119 *)

\* rawData.data || rawData, then Array.isArray.  Reading .data of null throws.
ExtractCryptos(rawData) ==
  CASE rawData.kind = "null"    -> [throws |-> TRUE,  isArray |-> FALSE, items |-> <<>>]
    [] rawData.kind = "list"    -> [throws |-> FALSE, isArray |-> TRUE,  items |-> rawData.items]
    [] rawData.kind = "wrapped" -> [throws |-> FALSE, isArray |-> TRUE,  items |-> rawData.items]
    [] OTHER                    -> [throws |-> FALSE, isArray |-> FALSE, items |-> <<>>]

\* variant with a fault: the test for "Restaked" is missing
IsExcluded_NoRestaked(crypto) ==
  \/ Includes(crypto.name, "Wrapped")
  \/ Includes(crypto.name, "Staked")

IsExcluded(crypto) ==
  \/ Includes(crypto.name, "Wrapped")
  \/ Includes(crypto.name, "Staked")
  \/ Includes(crypto.name, "Restaked")

\* the .map callback: h24 is crypto.percentChange?.h24 || 0
\* variant with a fault: a missing percentChange.h24 is kept as no number (here -1)
Project_NoDefault(crypto) ==
  Entry(crypto.symbol, crypto.name, crypto.price,
        IF crypto.pch = <<>> THEN 0 - 1 ELSE crypto.pch[1])

Project(crypto) ==
  Entry(crypto.symbol, crypto.name, crypto.price,
        IF crypto.pch = <<>> THEN 0 ELSE crypto.pch[1])

IsPriority(c) == \E k \in 1..Len(prioritySymbols) : prioritySymbols[k] = c.symbol

\* variant with a fault: the priority entries are left in input order
PickPriority_InputOrder(priorityCryptos, k) == priorityCryptos

\* prioritySymbols.map(sym => priorityCryptos.find(...)).filter(defined)
RECURSIVE PickPriority(_, _)
PickPriority(priorityCryptos, k) ==
  IF k > Len(prioritySymbols) THEN <<>>
  ELSE FindSymbol(priorityCryptos, prioritySymbols[k])
         \o PickPriority(priorityCryptos, k + 1)

\* variant with a fault: the comparator is a.h24 - b.h24
InsertDesc_Ascending(sorted, x) ==
  LET k == Cardinality({i \in 1..Len(sorted) : sorted[i].h24 <= x.h24})
  IN  SubSeq(sorted, 1, k) \o <<x>> \o SubSeq(sorted, k + 1, Len(sorted))

\* variant with a fault: a sort that is not stable (ties come out reversed)
InsertDesc_Unstable(sorted, x) ==
  LET k == Cardinality({i \in 1..Len(sorted) : sorted[i].h24 > x.h24})
  IN  SubSeq(sorted, 1, k) \o <<x>> \o SubSeq(sorted, k + 1, Len(sorted))

\* one insertion of a stable descending sort on h24
InsertDesc(sorted, x) ==
  LET k == Cardinality({i \in 1..Len(sorted) : sorted[i].h24 >= x.h24})
  IN  SubSeq(sorted, 1, k) \o <<x>> \o SubSeq(sorted, k + 1, Len(sorted))

\* otherCryptos.sort((a, b) => b.h24 - a.h24); Array.prototype.sort is stable
RECURSIVE SortOthers(_)
SortOthers(s) ==
  IF s = <<>> THEN <<>>
  ELSE InsertDesc(SortOthers(SubSeq(s, 1, Len(s) - 1)), s[Len(s)])

\* variant with a fault: the slice is missing
Truncate_None(s) == s

\* variant with a fault: .slice(0, 17)
Truncate_OffByOne(s) == SubSeq(s, 1, Min(Len(s), Capacity + 1))

\* .slice(0, 16)
Truncate(s) == SubSeq(s, 1, Min(Len(s), Capacity))

\* the stages of filterData; ok = FALSE when the call throws
FilterStages(rawData) ==
  LET ex == ExtractCryptos(rawData)
      throws == \/ ex.throws
                \/ ex.isArray /\ \E i \in 1..Len(ex.items) : ~ex.items[i].hasName
      kept == SelectSeq(ex.items, LAMBDA c : ~IsExcluded(c))
      filtered == [i \in 1..Len(kept) |-> Project(kept[i])]
      priorityCryptos == SelectSeq(filtered, IsPriority)
      otherCryptos == SelectSeq(filtered, LAMBDA c : ~IsPriority(c))
  IN  IF throws THEN [ok |-> FALSE, pri |-> <<>>, oth |-> <<>>]
      ELSE IF ~ex.isArray THEN [ok |-> TRUE, pri |-> <<>>, oth |-> <<>>]
      ELSE [ok |-> TRUE,
            pri |-> PickPriority(priorityCryptos, 1),
            oth |-> SortOthers(otherCryptos)]

filterData(rawData) ==
  LET st == FilterStages(rawData)
  IN  [ok |-> st.ok, out |-> IF st.ok THEN Truncate(st.pri \o st.oth) ELSE <<>>]

\* filterData of src/app/api/regenerate-light/route.ts:136-174: the same
\* statements up to the sort, then .slice(0, 50)
filterDataRegen(rawData) ==
  LET st == FilterStages(rawData)
      all == st.pri \o st.oth
  IN  [ok |-> st.ok,
       out |-> IF st.ok THEN SubSeq(all, 1, Min(Len(all), RegenCapacity)) ELSE <<>>]

\* variant with a fault: the excluded assets are removed from the input array itself
filterDataCall_DropsExcluded(rawData) ==
  [raw |-> [rawData EXCEPT !.items = SelectSeq(@, LAMBDA c : ~IsExcluded(c))],
   res |-> filterData(rawData)]

\* a call of filterData with what it leaves in its argument: filter, map and
\* slice build new arrays and sort is applied to one of them, so no
\* statement of route.ts:89-119 writes to rawData
filterDataCall(rawData) ==
  [raw |-> rawData, res |-> filterData(rawData)]

----------------------------------------------------------------------------
(* The store and the two helpers of the routes *)

NoBody == JOther("null")

AbsentDoc == [exists |-> FALSE, rev |-> 0, body |-> NoBody]

StoredDoc(rev, body) == [exists |-> TRUE, rev |-> rev, body |-> body]

\* the store's precondition on PUT: create without a sha, or overwrite with
\* the sha of the current revision
Accepts(doc, sha) ==
  IF doc.exists THEN sha = <<doc.rev>> ELSE sha = <<>>

\* the document after an accepted PUT
Written(doc, body) == StoredDoc(doc.rev + 1, body)

\* the GET of commitToGitHub (route.ts:53-64): the sha when the response is
\* ok, undefined (<<>>) when the file is absent or the request fails
ReadSha(doc, netOk) ==
  IF netOk /\ doc.exists THEN <<doc.rev>> ELSE <<>>

\* readFromGitHub (route.ts:124-144): throws on a failed request, a non-ok
\* response and a content that JSON.parse rejects
readFromGitHub(doc, netOk) ==
  IF ~netOk THEN [ok |-> FALSE, why |-> "error", val |-> NoBody]
  ELSE IF ~doc.exists THEN [ok |-> FALSE, why |-> "absent", val |-> NoBody]
  ELSE IF doc.body = Garbage THEN [ok |-> FALSE, why |-> "garbage", val |-> NoBody]
  ELSE [ok |-> TRUE, why |-> "none", val |-> doc.body]

\* variant with a fault: unshift instead of push
Preserve_Prepend(fresh, rd) ==
  IF rd.ok /\ rd.val.kind = "list"
  THEN FindSymbol(rd.val.items, FGISymbol) \o fresh
  ELSE fresh

\* route.ts:175-187: existing.find throws on a value that is not an array,
\* and the catch absorbs every failure of the read
Preserve(fresh, rd) ==
  IF rd.ok /\ rd.val.kind = "list"
  THEN fresh \o FindSymbol(rd.val.items, FGISymbol)
  ELSE fresh

\* cron-fgi/route.js:125-133
FgiEntry(globalData) ==
  Entry(FGISymbol, <<"Fear", "&", "Greed", "Index">>,
        globalData.fearGreed, globalData.altcoinIndex)

\* variant with a fault: push instead of unshift
UpdateFgi_Append(lightData, globalData) ==
  SelectSeq(lightData, LAMBDA c : c.symbol # FGISymbol) \o <<FgiEntry(globalData)>>

\* route.js:132-133: the entries that are not FGI, behind the new FGI entry
UpdateFgi(lightData, globalData) ==
  <<FgiEntry(globalData)>> \o SelectSeq(lightData, LAMBDA c : c.symbol # FGISymbol)

----------------------------------------------------------------------------
(* Inputs *)

aBTC  == Asset("BTC",  <<"Bitcoin">>, 50000, <<2>>)
aWBTC == Asset("WBTC", <<"Wrapped", "Bitcoin">>, 50000, <<1>>)
aXYZ  == Asset("XYZ",  <<"Xyz">>, 1, <<10>>)

\* what the snapshot source can answer to a cron run (wrapped payloads, long
\* lists, assets with the symbol FGI or with no name are in HarnessInputs)
Snapshots ==
  { JList(<<aBTC, aWBTC, aXYZ>>),
    JOther("object"),
    JOther("null") }

GlobalOk(fg, alt) == [hasData |-> TRUE, fearGreed |-> fg, altcoinIndex |-> alt]

\* what the global endpoint can answer; the last one has no data field
Globals == { GlobalOk(20, 30),
             [hasData |-> FALSE, fearGreed |-> 0, altcoinIndex |-> 0] }

eXYZ == Entry("XYZ", <<"Xyz">>, 1, 9)
eFGI == Entry(FGISymbol, <<"Fear", "&", "Greed", "Index">>, 50, 60)

\* light.json before the first run
InitLights ==
  { AbsentDoc,
    StoredDoc(1, JList(<<eFGI, eXYZ>>)),
    StoredDoc(1, JOther("object")),
    StoredDoc(1, Garbage) }

InitRaws == { AbsentDoc, StoredDoc(1, JList(<<aXYZ>>)) }

EnvAll == [apiUrl |-> TRUE, token |-> TRUE, owner |-> TRUE, repo |-> TRUE, apiKey |-> TRUE]

Envs ==
  { EnvAll,
    [EnvAll EXCEPT !.apiUrl = FALSE],
    [EnvAll EXCEPT !.token = FALSE],
    [EnvAll EXCEPT !.owner = FALSE],
    [EnvAll EXCEPT !.repo = FALSE],
    [EnvAll EXCEPT !.apiKey = FALSE] }

Cron == {"c1", "c2"}
Fgi == {"f1"}
Regen == {"r1"}
Procs == Cron \cup Fgi \cup Regen

----------------------------------------------------------------------------
VARIABLES
  env,        \* process.env: which variables are set
  feed,       \* the snapshots the source may answer a fetch with
  raw,        \* raw.json in the store
  light,      \* light.json in the store
  glob,       \* global.json in the store
  runs,       \* handler invocations so far
  pc,         \* position of each invocation
  sha,        \* the sha read by commitToGitHub
  cRawData,   \* rawData of a cron run
  cFresh,     \* filteredData as returned by filterData
  cFinal,     \* finalLightData
  fGlobal,    \* globalData of an FGI run
  fLight,     \* lightData of an FGI run
  resp,       \* the response of an invocation that has finished
  failStage,  \* history: the stage at which the run aborted
  trace,      \* history: the I/O and stages of the current run, in order
  cRead,      \* history: what the read of light.json gave the run
  hStage, hIn, hPrev, hSt, hOut, hMerged,  \* filterData and the merge on their own
  hRaw,       \* the value rawData refers to, after the calls so far
  hOut2,      \* what a second call of filterData returned
  hOutR,      \* what filterData of regenerate-light returned for the same rawData
  gRaw,       \* rawData of a regenerate run
  gOut,       \* filteredData of a regenerate run
  clock,      \* Date.now(), in ms
  lastFetch,  \* update.js: let lastFetch
  rawFile,    \* /tmp/cryptorank-raw.json
  lightFile,  \* /tmp/cryptorank-light.json
  uReq,       \* the requests to the update handler: position, now, refresh, response
  uLastOk,    \* history: now of the refresh that succeeded last, 0 when none has
  cachedData, \* cryptorank.js: let cachedData, <<>> for null
  kLastFetch, \* cryptorank.js: let lastFetch
  kReq,       \* the requests to the cryptorank handler
  kLatest,    \* history: the payload of the upstream fetch that succeeded last
  file,       \* the document at the path GitHubClient is called with
  client,     \* the calls of GitHubClient.commitFile
  commits     \* calls of commitFile so far

pvars == <<env, feed, raw, light, glob, runs, pc, sha, cRawData, cFresh, cFinal,
           fGlobal, fLight, resp, failStage, trace, cRead>>
hvars == <<hStage, hIn, hPrev, hSt, hOut, hMerged, hRaw, hOut2, hOutR>>
gvars == <<gRaw, gOut>>
uvars == <<clock, lastFetch, rawFile, lightFile, uReq, uLastOk>>
kvars == <<cachedData, kLastFetch, kReq, kLatest>>
lvars == <<file, client, commits>>
xvars == <<gvars, uvars, kvars, lvars>>
vars == <<pvars, hvars, xvars>>

NoRead == [ok |-> FALSE, why |-> "unread", val |-> NoBody]
NoGlobal == [hasData |-> FALSE, fearGreed |-> 0, altcoinIndex |-> 0]
NoStages == [ok |-> FALSE, pri |-> <<>>, oth |-> <<>>]

credsOk == env.token /\ env.owner /\ env.repo

ProcsIdle ==
  /\ runs = 0
  /\ pc = [p \in Procs |-> "idle"]
  /\ sha = [p \in Procs |-> <<>>]
  /\ cRawData = [p \in Cron |-> NoBody]
  /\ cFresh = [p \in Cron |-> <<>>]
  /\ cFinal = [p \in Cron |-> <<>>]
  /\ fGlobal = [p \in Fgi |-> NoGlobal]
  /\ fLight = [p \in Fgi |-> <<>>]
  /\ resp = [p \in Procs |-> "none"]
  /\ failStage = [p \in Procs |-> "none"]
  /\ trace = [p \in Procs |-> <<>>]
  /\ cRead = [p \in Cron \cup Fgi |-> NoRead]
  /\ gRaw = [p \in Regen |-> NoBody]
  /\ gOut = [p \in Regen |-> <<>>]

\* update.js:6
CACHE_DURATION == 30 * 60 * 1000

\* the clock advances in steps of a third of CACHE_DURATION
TickMs == CACHE_DURATION \div 3

\* Date.now() when the process starts: far more than CACHE_DURATION
StartTime == 2 * CACHE_DURATION

Upd == {"u1", "u2"}

IdleReq == [pc |-> "idle", now |-> 0, refresh |-> FALSE, resp |-> "none"]

\* the module state of update.js when the process starts (update.js:8), no
\* cache file written yet
CacheIdle ==
  /\ clock = StartTime
  /\ lastFetch = 0
  /\ rawFile = <<>>
  /\ lightFile = <<>>
  /\ uReq = [p \in Upd |-> IdleReq]
  /\ uLastOk = 0

Rank == {"k1", "k2"}

IdleRank == [pc |-> "idle", now |-> 0, fetch |-> "none", resp |-> "none", body |-> <<>>]

\* the module state of cryptorank.js when the process starts (cryptorank.js:1-2)
RankIdle ==
  /\ cachedData = <<>>
  /\ kLastFetch = 0
  /\ kReq = [p \in Rank |-> IdleRank]
  /\ kLatest = <<>>

Clients == {"g1", "g2"}

IdleCall == [pc |-> "idle", content |-> NoBody, got |-> "none", existing |-> <<>>,
             token |-> <<>>, out |-> "none"]

ClientCallsIdle ==
  /\ client = [p \in Clients |-> IdleCall]
  /\ commits = 0

ClientIdle ==
  /\ file = AbsentDoc
  /\ ClientCallsIdle

HarnessIdle ==
  /\ hStage = "off"
  /\ hIn = NoBody
  /\ hPrev = NoRead
  /\ hSt = NoStages
  /\ hOut = <<>>
  /\ hMerged = <<>>
  /\ hRaw = NoBody
  /\ hOut2 = <<>>
  /\ hOutR = <<>>

Init ==
  /\ env \in Envs
  /\ feed = Snapshots
  /\ raw \in InitRaws
  /\ light \in InitLights
  /\ glob = AbsentDoc
  /\ ProcsIdle
  /\ HarnessIdle
  /\ CacheIdle
  /\ RankIdle
  /\ ClientIdle

\* the fields of the JSON body of each response of GET: route.ts:193-199
\* (success), route.ts:201-207 (the catch), route.ts:153 (no source URL)
ResponseFields(r) ==
  CASE r = "200 success" ->
         {"success", "message", "timestamp", "rawSize", "filteredSize"}
    [] r = "500 Failed to process request" -> {"error", "details"}
    [] r = "500 EXTERNAL_API_URL not configured" -> {"error"}
    [] OTHER -> {}

\* the catch of GET: one 500 response, route.ts:200-208
Fail(p, stage, ev) ==
  /\ pc' = [pc EXCEPT ![p] = "failed"]
  /\ failStage' = [failStage EXCEPT ![p] = stage]
  /\ trace' = [trace EXCEPT ![p] = @ \o ev]
  /\ resp' = [resp EXCEPT ![p] = "500 Failed to process request"]

Goto(p, next, ev) ==
  /\ pc' = [pc EXCEPT ![p] = next]
  /\ trace' = [trace EXCEPT ![p] = @ \o ev]
  /\ UNCHANGED <<failStage, resp>>

----------------------------------------------------------------------------
(* GET of src/app/api/cron/route.ts *)

\* route.ts:149-154
CronStart(p) ==
  /\ pc[p] = "idle"
  /\ runs < MaxRuns
  /\ runs' = runs + 1
  /\ IF env.apiUrl
     THEN /\ pc' = [pc EXCEPT ![p] = "fetch"]
          /\ resp' = [resp EXCEPT ![p] = "none"]
          /\ failStage' = [failStage EXCEPT ![p] = "none"]
     ELSE /\ pc' = [pc EXCEPT ![p] = "failed"]
          /\ resp' = [resp EXCEPT ![p] = "500 EXTERNAL_API_URL not configured"]
          /\ failStage' = [failStage EXCEPT ![p] = "config"]
  /\ trace' = [trace EXCEPT ![p] = <<>>]
  /\ UNCHANGED <<env, feed, raw, light, glob, sha, cRawData, cFresh, cFinal,
                 fGlobal, fLight, cRead, hvars, xvars>>

\* variant with a fault: the raw write is left out, the run goes on to the light.json steps
CronFetch_SkipRaw(p) ==
  /\ pc[p] = "fetch"
  /\ \/ /\ Fail(p, "fetch", <<"fetchFail">>)
        /\ UNCHANGED <<cRawData, cFresh, cFinal>>
     \/ \E rawData \in feed :
          /\ cRawData' = [cRawData EXCEPT ![p] = rawData]
          /\ cFresh' = [cFresh EXCEPT ![p] = filterData(rawData).out]
          /\ cFinal' = [cFinal EXCEPT ![p] = filterData(rawData).out]
          /\ IF credsOk
             THEN Goto(p, "lightRead", <<"fetch", "filter">>)
             ELSE Fail(p, "rawWrite", <<"fetch", "noCreds">>)
  /\ UNCHANGED <<env, feed, raw, light, glob, runs, sha,
                 fGlobal, fLight, cRead, hvars, xvars>>

\* variant with a fault: a failed fetch is not thrown, the run goes on with an empty payload
CronFetch_IgnoreFailure(p) ==
  /\ pc[p] = "fetch"
  /\ \/ /\ cRawData' = [cRawData EXCEPT ![p] = JOther("object")]
        /\ IF credsOk
           THEN Goto(p, "rawSha", <<"fetchFail">>)
           ELSE Fail(p, "rawWrite", <<"fetchFail", "noCreds">>)
     \/ \E rawData \in feed :
          /\ cRawData' = [cRawData EXCEPT ![p] = rawData]
          /\ IF credsOk
             THEN Goto(p, "rawSha", <<"fetch">>)
             ELSE Fail(p, "rawWrite", <<"fetch", "noCreds">>)
  /\ UNCHANGED <<env, feed, raw, light, glob, runs, sha, cFresh, cFinal,
                 fGlobal, fLight, cRead, hvars, xvars>>

\* route.ts:157-166, and the credentials check of commitToGitHub (36-44)
CronFetch(p) ==
  /\ pc[p] = "fetch"
  /\ \/ /\ Fail(p, "fetch", <<"fetchFail">>)
        /\ UNCHANGED cRawData
     \/ \E rawData \in feed :
          /\ cRawData' = [cRawData EXCEPT ![p] = rawData]
          /\ IF credsOk
             THEN Goto(p, "rawSha", <<"fetch">>)
             ELSE Fail(p, "rawWrite", <<"fetch", "noCreds">>)
  /\ UNCHANGED <<env, feed, raw, light, glob, runs, sha, cFresh, cFinal,
                 fGlobal, fLight, cRead, hvars, xvars>>

\* variant with a fault: a failed read of the sha aborts the run
CronRawSha_Abort(p) ==
  /\ pc[p] = "rawSha"
  /\ \E netOk \in BOOLEAN :
       IF netOk
       THEN /\ sha' = [sha EXCEPT ![p] = ReadSha(raw, netOk)]
            /\ Goto(p, "rawPut", <<"shaRaw">>)
       ELSE /\ UNCHANGED sha
            /\ Fail(p, "rawWrite", <<"shaRawFail">>)
  /\ UNCHANGED <<env, feed, raw, light, glob, runs, cRawData, cFresh, cFinal,
                 fGlobal, fLight, cRead, hvars, xvars>>

\* route.ts:53-64 for raw.json
CronRawSha(p) ==
  /\ pc[p] = "rawSha"
  /\ \E netOk \in BOOLEAN : sha' = [sha EXCEPT ![p] = ReadSha(raw, netOk)]
  /\ Goto(p, "rawPut", <<"shaRaw">>)
  /\ UNCHANGED <<env, feed, raw, light, glob, runs, cRawData, cFresh, cFinal,
                 fGlobal, fLight, cRead, hvars, xvars>>

\* variant with a fault: a refused PUT of raw.json is not thrown
CronRawPut_NoThrow(p) ==
  /\ pc[p] = "rawPut"
  /\ \E netOk \in BOOLEAN :
       LET accepted == netOk /\ Accepts(raw, sha[p])
           f == filterData(cRawData[p])
       IN  /\ raw' = IF accepted THEN Written(raw, cRawData[p]) ELSE raw
           /\ IF f.ok
              THEN /\ cFresh' = [cFresh EXCEPT ![p] = f.out]
                   /\ cFinal' = [cFinal EXCEPT ![p] = f.out]
                   /\ Goto(p, "lightRead",
                           IF accepted THEN <<"putRaw", "filter">>
                                       ELSE <<"putRawFail", "filter">>)
              ELSE /\ UNCHANGED <<cFresh, cFinal>>
                   /\ Fail(p, "filter",
                           IF accepted THEN <<"putRaw", "filterThrow">>
                                       ELSE <<"putRawFail", "filterThrow">>)
  /\ UNCHANGED <<env, feed, light, glob, runs, sha, cRawData,
                 fGlobal, fLight, cRead, hvars, xvars>>

\* variant with a fault: filterData runs before the raw write, so a throw of filterData
\* leaves raw.json as it was
CronRawPut_FilterFirst(p) ==
  /\ pc[p] = "rawPut"
  /\ \E netOk \in BOOLEAN :
       LET f == filterData(cRawData[p])
       IN  IF ~f.ok
           THEN /\ UNCHANGED <<raw, cFresh, cFinal>>
                /\ Fail(p, "filter", <<"filterThrow">>)
           ELSE IF netOk /\ Accepts(raw, sha[p])
           THEN /\ raw' = Written(raw, cRawData[p])
                /\ cFresh' = [cFresh EXCEPT ![p] = f.out]
                /\ cFinal' = [cFinal EXCEPT ![p] = f.out]
                /\ Goto(p, "lightRead", <<"putRaw", "filter">>)
           ELSE /\ UNCHANGED <<raw, cFresh, cFinal>>
                /\ Fail(p, "rawWrite", <<"putRawFail">>)
  /\ UNCHANGED <<env, feed, light, glob, runs, sha, cRawData,
                 fGlobal, fLight, cRead, hvars, xvars>>

\* route.ts:66-84 for raw.json, then route.ts:174-175
CronRawPut(p) ==
  /\ pc[p] = "rawPut"
  /\ \E netOk \in BOOLEAN :
       IF netOk /\ Accepts(raw, sha[p])
       THEN /\ raw' = Written(raw, cRawData[p])
            /\ LET f == filterData(cRawData[p])
               IN  IF f.ok
                   THEN /\ cFresh' = [cFresh EXCEPT ![p] = f.out]
                        /\ cFinal' = [cFinal EXCEPT ![p] = f.out]
                        /\ Goto(p, "lightRead", <<"putRaw", "filter">>)
                   ELSE /\ UNCHANGED <<cFresh, cFinal>>
                        /\ Fail(p, "filter", <<"putRaw", "filterThrow">>)
       ELSE /\ UNCHANGED <<raw, cFresh, cFinal>>
            /\ Fail(p, "rawWrite", <<"putRawFail">>)
  /\ UNCHANGED <<env, feed, light, glob, runs, sha, cRawData,
                 fGlobal, fLight, cRead, hvars, xvars>>

\* variant with a fault: the read of light.json is outside the try, its failure aborts
CronLightRead_NoCatch(p) ==
  /\ pc[p] = "lightRead"
  /\ \E netOk \in BOOLEAN :
       LET rd == readFromGitHub(light, netOk)
       IN  /\ cRead' = [cRead EXCEPT ![p] = rd]
           /\ IF rd.ok /\ rd.val.kind = "list"
              THEN /\ cFinal' = [cFinal EXCEPT ![p] = Preserve(cFresh[p], rd)]
                   /\ Goto(p, "lightSha", <<"readLight", "merge">>)
              ELSE /\ UNCHANGED cFinal
                   /\ Fail(p, "lightRead", <<"readLightFail">>)
  /\ UNCHANGED <<env, feed, raw, light, glob, runs, sha, cRawData, cFresh,
                 fGlobal, fLight, hvars, xvars>>

\* route.ts:177-187
CronLightRead(p) ==
  /\ pc[p] = "lightRead"
  /\ \E netOk \in BOOLEAN :
       LET rd == readFromGitHub(light, netOk)
       IN  /\ cRead' = [cRead EXCEPT ![p] = rd]
           /\ cFinal' = [cFinal EXCEPT ![p] = Preserve(cFresh[p], rd)]
  /\ Goto(p, "lightSha", <<"readLight", "merge">>)
  /\ UNCHANGED <<env, feed, raw, light, glob, runs, sha, cRawData, cFresh,
                 fGlobal, fLight, hvars, xvars>>

\* route.ts:53-64 for light.json
CronLightSha(p) ==
  /\ pc[p] = "lightSha"
  /\ \E netOk \in BOOLEAN : sha' = [sha EXCEPT ![p] = ReadSha(light, netOk)]
  /\ Goto(p, "lightPut", <<"shaLight">>)
  /\ UNCHANGED <<env, feed, raw, light, glob, runs, cRawData, cFresh, cFinal,
                 fGlobal, fLight, cRead, hvars, xvars>>

\* variant with a fault: the list written is the filter output, not the merged list
CronLightPut_WritesFiltered(p) ==
  /\ pc[p] = "lightPut"
  /\ \E netOk \in BOOLEAN :
       IF netOk /\ Accepts(light, sha[p])
       THEN /\ light' = Written(light, JList(cFresh[p]))
            /\ pc' = [pc EXCEPT ![p] = "done"]
            /\ trace' = [trace EXCEPT ![p] = @ \o <<"putLight">>]
            /\ resp' = [resp EXCEPT ![p] = "200 success"]
            /\ UNCHANGED failStage
       ELSE /\ UNCHANGED light
            /\ Fail(p, "lightWrite", <<"putLightFail">>)
  /\ UNCHANGED <<env, feed, raw, glob, runs, sha, cRawData, cFresh, cFinal,
                 fGlobal, fLight, cRead, hvars, xvars>>

\* variant with a fault: a write of light.json that is not accepted is tried again from the read of the sha
CronLightPut_Retry(p) ==
  /\ pc[p] = "lightPut"
  /\ \E netOk \in BOOLEAN :
       IF netOk /\ Accepts(light, sha[p])
       THEN /\ light' = Written(light, JList(cFinal[p]))
            /\ pc' = [pc EXCEPT ![p] = "done"]
            /\ trace' = [trace EXCEPT ![p] = @ \o <<"putLight">>]
            /\ resp' = [resp EXCEPT ![p] = "200 success"]
            /\ UNCHANGED failStage
       ELSE /\ UNCHANGED light
            /\ Goto(p, "lightSha", <<>>)
  /\ UNCHANGED <<env, feed, raw, glob, runs, sha, cRawData, cFresh, cFinal,
                 fGlobal, fLight, cRead, hvars, xvars>>

\* route.ts:66-84 for light.json, then route.ts:193-199
CronLightPut(p) ==
  /\ pc[p] = "lightPut"
  /\ \E netOk \in BOOLEAN :
       IF netOk /\ Accepts(light, sha[p])
       THEN /\ light' = Written(light, JList(cFinal[p]))
            /\ pc' = [pc EXCEPT ![p] = "done"]
            /\ trace' = [trace EXCEPT ![p] = @ \o <<"putLight">>]
            /\ resp' = [resp EXCEPT ![p] = "200 success"]
            /\ UNCHANGED failStage
       ELSE /\ UNCHANGED light
            /\ Fail(p, "lightWrite", <<"putLightFail">>)
  /\ UNCHANGED <<env, feed, raw, glob, runs, sha, cRawData, cFresh, cFinal,
                 fGlobal, fLight, cRead, hvars, xvars>>

\* the response is delivered; the locals of the invocation are gone
CronReturn(p) ==
  /\ pc[p] \in {"done", "failed"}
  /\ pc' = [pc EXCEPT ![p] = "idle"]
  /\ sha' = [sha EXCEPT ![p] = <<>>]
  /\ cRawData' = [cRawData EXCEPT ![p] = NoBody]
  /\ cFresh' = [cFresh EXCEPT ![p] = <<>>]
  /\ cFinal' = [cFinal EXCEPT ![p] = <<>>]
  /\ cRead' = [cRead EXCEPT ![p] = NoRead]
  /\ trace' = [trace EXCEPT ![p] = <<>>]
  /\ resp' = [resp EXCEPT ![p] = "none"]
  /\ failStage' = [failStage EXCEPT ![p] = "none"]
  /\ UNCHANGED <<env, feed, raw, light, glob, runs, fGlobal, fLight, hvars, xvars>>

----------------------------------------------------------------------------
(* GET of src/app/api/cron-fgi/route.js *)

FgiFail(p, stage, ev) ==
  /\ pc' = [pc EXCEPT ![p] = "failed"]
  /\ failStage' = [failStage EXCEPT ![p] = stage]
  /\ trace' = [trace EXCEPT ![p] = @ \o ev]
  /\ resp' = [resp EXCEPT ![p] = "500 Failed to process FGI cron job"]

\* route.js:87-96
FgiStart(p) ==
  /\ pc[p] = "idle"
  /\ runs < MaxRuns
  /\ runs' = runs + 1
  /\ IF env.apiKey
     THEN /\ pc' = [pc EXCEPT ![p] = "fetch"]
          /\ resp' = [resp EXCEPT ![p] = "none"]
          /\ failStage' = [failStage EXCEPT ![p] = "none"]
     ELSE /\ pc' = [pc EXCEPT ![p] = "failed"]
          /\ resp' = [resp EXCEPT ![p] = "500 Failed to process FGI cron job"]
          /\ failStage' = [failStage EXCEPT ![p] = "config"]
  /\ trace' = [trace EXCEPT ![p] = <<>>]
  /\ UNCHANGED <<env, feed, raw, light, glob, sha, cRawData, cFresh, cFinal,
                 fGlobal, fLight, cRead, hvars, xvars>>

\* route.js:98-109, and the credentials check of commitToGitHub (6-14)
FgiFetch(p) ==
  /\ pc[p] = "fetch"
  /\ \/ /\ FgiFail(p, "fetch", <<"fetchFail">>)
        /\ UNCHANGED fGlobal
     \/ \E globalData \in Globals :
          /\ fGlobal' = [fGlobal EXCEPT ![p] = globalData]
          /\ IF credsOk
             THEN Goto(p, "globSha", <<"fetch">>)
             ELSE FgiFail(p, "globalWrite", <<"fetch", "noCreds">>)
  /\ UNCHANGED <<env, feed, raw, light, glob, runs, sha, cRawData, cFresh, cFinal,
                 fLight, cRead, hvars, xvars>>

\* route.js:22-33 for global.json
FgiGlobSha(p) ==
  /\ pc[p] = "globSha"
  /\ \E netOk \in BOOLEAN : sha' = [sha EXCEPT ![p] = ReadSha(glob, netOk)]
  /\ Goto(p, "globPut", <<"shaGlobal">>)
  /\ UNCHANGED <<env, feed, raw, light, glob, runs, cRawData, cFresh, cFinal,
                 fGlobal, fLight, cRead, hvars, xvars>>

\* route.js:35-55 for global.json, then route.js:115-116: reading
\* globalData.data.fearGreed throws when the payload has no data field
FgiGlobPut(p) ==
  /\ pc[p] = "globPut"
  /\ \E netOk \in BOOLEAN :
       IF netOk /\ Accepts(glob, sha[p])
       THEN /\ glob' = Written(glob, JOther("object"))
            /\ IF fGlobal[p].hasData
               THEN Goto(p, "lightRead", <<"putGlobal">>)
               ELSE FgiFail(p, "compute", <<"putGlobal", "noData">>)
       ELSE /\ UNCHANGED glob
            /\ FgiFail(p, "globalWrite", <<"putGlobalFail">>)
  /\ UNCHANGED <<env, feed, raw, light, runs, sha, cRawData, cFresh, cFinal,
                 fGlobal, fLight, cRead, hvars, xvars>>

\* route.js:118-133: a failed read leaves lightData = []; a value that is not
\* an array has no filter method, and that throw is outside the try
FgiLightRead(p) ==
  /\ pc[p] = "lightRead"
  /\ \E netOk \in BOOLEAN :
       LET rd == readFromGitHub(light, netOk)
       IN  /\ cRead' = [cRead EXCEPT ![p] = rd]
           /\ IF rd.ok /\ rd.val.kind # "list"
              THEN /\ UNCHANGED fLight
                   /\ FgiFail(p, "merge", <<"readLight", "mergeThrow">>)
              ELSE /\ fLight' = [fLight EXCEPT ![p] =
                        UpdateFgi(IF rd.ok THEN rd.val.items ELSE <<>>, fGlobal[p])]
                   /\ Goto(p, "lightSha", <<"readLight", "merge">>)
  /\ UNCHANGED <<env, feed, raw, light, glob, runs, sha, cRawData, cFresh, cFinal,
                 fGlobal, hvars, xvars>>

\* route.js:22-33 for light.json
FgiLightSha(p) ==
  /\ pc[p] = "lightSha"
  /\ \E netOk \in BOOLEAN : sha' = [sha EXCEPT ![p] = ReadSha(light, netOk)]
  /\ Goto(p, "lightPut", <<"shaLight">>)
  /\ UNCHANGED <<env, feed, raw, light, glob, runs, cRawData, cFresh, cFinal,
                 fGlobal, fLight, cRead, hvars, xvars>>

\* route.js:35-55 for light.json, then route.js:138-144
FgiLightPut(p) ==
  /\ pc[p] = "lightPut"
  /\ \E netOk \in BOOLEAN :
       IF netOk /\ Accepts(light, sha[p])
       THEN /\ light' = Written(light, JList(fLight[p]))
            /\ pc' = [pc EXCEPT ![p] = "done"]
            /\ trace' = [trace EXCEPT ![p] = @ \o <<"putLight">>]
            /\ resp' = [resp EXCEPT ![p] = "200 success"]
            /\ UNCHANGED failStage
       ELSE /\ UNCHANGED light
            /\ FgiFail(p, "lightWrite", <<"putLightFail">>)
  /\ UNCHANGED <<env, feed, raw, glob, runs, sha, cRawData, cFresh, cFinal,
                 fGlobal, fLight, cRead, hvars, xvars>>

\* the response is delivered; the locals of the invocation are gone
FgiReturn(p) ==
  /\ pc[p] \in {"done", "failed"}
  /\ pc' = [pc EXCEPT ![p] = "idle"]
  /\ sha' = [sha EXCEPT ![p] = <<>>]
  /\ fGlobal' = [fGlobal EXCEPT ![p] = NoGlobal]
  /\ fLight' = [fLight EXCEPT ![p] = <<>>]
  /\ cRead' = [cRead EXCEPT ![p] = NoRead]
  /\ trace' = [trace EXCEPT ![p] = <<>>]
  /\ resp' = [resp EXCEPT ![p] = "none"]
  /\ failStage' = [failStage EXCEPT ![p] = "none"]
  /\ UNCHANGED <<env, feed, raw, light, glob, runs, cRawData, cFresh, cFinal,
                 hvars, xvars>>

----------------------------------------------------------------------------
CronStep(p) ==
  \/ CronStart(p)
  \/ CronFetch(p)
  \/ CronRawSha(p)
  \/ CronRawPut(p)
  \/ CronLightRead(p)
  \/ CronLightSha(p)
  \/ CronLightPut(p)
  \/ CronReturn(p)

FgiStep(p) ==
  \/ FgiStart(p)
  \/ FgiFetch(p)
  \/ FgiGlobSha(p)
  \/ FgiGlobPut(p)
  \/ FgiLightRead(p)
  \/ FgiLightSha(p)
  \/ FgiLightPut(p)
  \/ FgiReturn(p)

Next ==
  \/ \E p \in Cron : CronStep(p)
  \/ \E p \in Fgi : FgiStep(p)

Spec == Init /\ [][Next]_vars

----------------------------------------------------------------------------
(* filterData and the merge step on their own, over a family of snapshots: *)
(* a head of up to two assets, then fillers, then a tail                   *)

hBTC   == Asset("BTC",   <<"Bitcoin">>, 50000, <<2>>)
hBTC2  == Asset("BTC",   <<"Bitcoin", "Two">>, 40000, <<9>>)
hETH   == Asset("ETH",   <<"Ethereum">>, 3000, <<>>)
hSOL   == Asset("SOL",   <<"Solana">>, 100, <<-4>>)
hBNB   == Asset("BNB",   <<"BNB">>, 600, <<0>>)
hWBTC  == Asset("WBTC",  <<"Wrapped", "Bitcoin">>, 50000, <<1>>)
hSTETH == Asset("STETH", <<"Lido", "Staked", "ETH">>, 3000, <<8>>)
hREST  == Asset("EZETH", <<"Restaked", "ETH">>, 3000, <<7>>)
hLOW   == Asset("UNW",   <<"wrapped", "staked">>, 5, <<1>>)
hXYZ   == Asset("XYZ",   <<"Xyz">>, 1, <<10>>)
hFGI   == Asset("FGI",   <<"Figi">>, 7, <<3>>)
hBad   == NoNameAsset("ABC", 2, <<5>>)

HeadAssets == {hBTC, hBTC2, hETH, hSOL, hWBTC, hSTETH, hREST, hLOW, hXYZ, hFGI, hBad}

Heads == {<<>>} \cup {<<a>> : a \in HeadAssets}
           \cup {<<a, b>> : a \in HeadAssets, b \in HeadAssets}

Tails == {<<>>, <<hBNB>>, <<hBTC2>>}

\* the i-th filler: a non-priority asset, told apart by its price, with
\* h24 in -2..2 so that there are ties
Filler(i) == Asset("ALT", <<"Alt">>, i, <<((i * 3) % 5) - 2>>)

Fillers(n) == [i \in 1..n |-> Filler(i)]

FillCounts == {0, 1, 2} \cup {n \in 0..MaxFill : n >= MaxFill - 3}

HarnessInputs ==
  {JList(h \o Fillers(n) \o t) : h \in Heads, n \in FillCounts, t \in Tails}
    \cup {JWrapped(h \o Fillers(n)) : h \in Heads, n \in {0, MaxFill}}
    \cup {JOther(k) : k \in {"object", "baddata", "number", "string", "null"}}

pFGI  == Entry(FGISymbol, <<"Fear", "&", "Greed", "Index">>, 50, 60)
pFGI2 == Entry(FGISymbol, <<"Fear", "&", "Greed", "Index">>, 10, 20)
pXYZ  == Entry("XYZ", <<"Xyz">>, 1, 9)

\* what the read of the previous light.json can give the merge
HarnessReads ==
  { readFromGitHub(d, n) :
      d \in { AbsentDoc,
              StoredDoc(1, Garbage),
              StoredDoc(1, JOther("object")),
              StoredDoc(1, JList(<<>>)),
              StoredDoc(1, JList(<<pXYZ>>)),
              StoredDoc(1, JList(<<pFGI>>)),
              StoredDoc(1, JList(<<pXYZ, pFGI, pFGI2>>)) },
      n \in BOOLEAN }

InitPure ==
  /\ env = EnvAll
  /\ feed = Snapshots
  /\ raw = AbsentDoc
  /\ light = AbsentDoc
  /\ glob = AbsentDoc
  /\ ProcsIdle
  /\ hStage = "input"
  /\ hIn \in HarnessInputs
  /\ hRaw = hIn
  /\ hPrev = NoRead
  /\ hSt = NoStages
  /\ hOut = <<>>
  /\ hMerged = <<>>
  /\ hOut2 = <<>>
  /\ hOutR = <<>>
  /\ CacheIdle
  /\ RankIdle
  /\ ClientIdle

\* const filteredData = filterData(rawData), route.ts:174
ApplyFilter ==
  /\ hStage = "input"
  /\ LET f == filterDataCall(hRaw)
     IN  /\ hStage' = IF f.res.ok THEN "filtered" ELSE "threw"
         /\ hSt' = FilterStages(hRaw)
         /\ hOut' = f.res.out
         /\ hRaw' = f.raw
  /\ UNCHANGED <<hIn, hPrev, hMerged, hOut2, hOutR, pvars, xvars>>

\* route.ts:175-187 on the list that filterData returned; the push is on
\* that list, rawData is not referred to
ApplyMerge ==
  /\ hStage = "filtered"
  /\ \E rd \in HarnessReads :
       /\ hPrev' = rd
       /\ hMerged' = Preserve(hOut, rd)
  /\ hStage' = "merged"
  /\ UNCHANGED <<hIn, hSt, hOut, hRaw, hOut2, hOutR, pvars, xvars>>

\* filterData(rawData) once more on the same rawData, after the first call
\* or after the merge
ApplyFilterAgain ==
  /\ hStage \in {"filtered", "merged"}
  /\ LET f == filterDataCall(hRaw)
     IN  /\ hOut2' = f.res.out
         /\ hRaw' = f.raw
  /\ hStage' = "again"
  /\ UNCHANGED <<hIn, hPrev, hSt, hOut, hMerged, hOutR, pvars, xvars>>

\* filterData of regenerate-light on the rawData that the cron route's
\* filterData was called with
ApplyFilterRegen ==
  /\ hStage = "filtered"
  /\ hOutR' = filterDataRegen(hRaw).out
  /\ hStage' = "regen"
  /\ UNCHANGED <<hIn, hPrev, hSt, hOut, hMerged, hRaw, hOut2, pvars, xvars>>

NextPure == ApplyFilter \/ ApplyMerge \/ ApplyFilterAgain \/ ApplyFilterRegen

SpecPure == InitPure /\ [][NextPure]_vars

----------------------------------------------------------------------------
(* The cron pipeline run again and again by one invocation at a time, the *)
(* source answering every fetch with the same snapshot, no FGI updater.   *)
(* A document that exists before the first run has revision 0, so that a  *)
(* revision of 1 or more is a document that a run wrote.                  *)

TwiceSnapshots == Snapshots \cup {JList(<<aXYZ, hFGI>>)}

InitTwice ==
  /\ env = EnvAll
  /\ feed \in {{s} : s \in TwiceSnapshots}
  /\ raw \in {AbsentDoc, StoredDoc(0, JList(<<aXYZ>>))}
  /\ light \in {AbsentDoc, StoredDoc(0, JList(<<eFGI, eXYZ>>))}
  /\ glob = AbsentDoc
  /\ ProcsIdle
  /\ HarnessIdle
  /\ CacheIdle
  /\ RankIdle
  /\ ClientIdle

NextTwice == \E p \in {"c1"} : CronStep(p)

SpecTwice == InitTwice /\ [][NextTwice]_vars

----------------------------------------------------------------------------
(* The cron pipeline and the FGI updater on an empty store, the source     *)
(* answering with snapshots of Capacity and more assets.                   *)

CapSnapshots ==
  {JList(Fillers(Capacity)),
   JList(<<hBTC>> \o Fillers(MaxFill)),
   JList(<<hFGI>> \o Fillers(MaxFill))}

InitCap ==
  /\ env = EnvAll
  /\ feed = CapSnapshots
  /\ raw = AbsentDoc
  /\ light = AbsentDoc
  /\ glob = AbsentDoc
  /\ ProcsIdle
  /\ HarnessIdle
  /\ CacheIdle
  /\ RankIdle
  /\ ClientIdle

SpecCap == InitCap /\ [][Next]_vars

----------------------------------------------------------------------------
(* POST of src/app/api/regenerate-light/route.ts *)

\* the catch of POST: one 500 response, regenerate-light/route.ts:202-212
RegenFail(p, stage, ev) ==
  /\ pc' = [pc EXCEPT ![p] = "failed"]
  /\ failStage' = [failStage EXCEPT ![p] = stage]
  /\ trace' = [trace EXCEPT ![p] = @ \o ev]
  /\ resp' = [resp EXCEPT ![p] = "500 Failed to regenerate light.json"]

\* regenerate-light/route.ts:181-184
RegenStart(p) ==
  /\ pc[p] = "idle"
  /\ runs < MaxRuns
  /\ runs' = runs + 1
  /\ pc' = [pc EXCEPT ![p] = "rawRead"]
  /\ trace' = [trace EXCEPT ![p] = <<>>]
  /\ UNCHANGED <<env, feed, raw, light, glob, sha, cRawData, cFresh, cFinal,
                 fGlobal, fLight, resp, failStage, cRead, hvars, xvars>>

\* getFromGitHub("raw.json") (regenerate-light/route.ts:34-66, 185), then
\* filterData(rawData) (189) and the credentials check of commitToGitHub
RegenRawRead(p) ==
  /\ pc[p] = "rawRead"
  /\ IF ~credsOk
     THEN /\ RegenFail(p, "rawRead", <<"noCreds">>)
          /\ UNCHANGED gvars
     ELSE \E netOk \in BOOLEAN :
            LET rd == readFromGitHub(raw, netOk)
                f == filterDataRegen(rd.val)
            IN  IF ~rd.ok
                THEN /\ RegenFail(p, "rawRead", <<"readRawFail">>)
                     /\ UNCHANGED gvars
                ELSE /\ gRaw' = [gRaw EXCEPT ![p] = rd.val]
                     /\ IF f.ok
                        THEN /\ gOut' = [gOut EXCEPT ![p] = f.out]
                             /\ Goto(p, "lightSha", <<"readRaw", "filter">>)
                        ELSE /\ UNCHANGED gOut
                             /\ RegenFail(p, "filter", <<"readRaw", "filterThrow">>)
  /\ UNCHANGED <<env, feed, raw, light, glob, runs, sha, cRawData, cFresh, cFinal,
                 fGlobal, fLight, cRead, hvars, uvars, kvars, lvars>>

\* regenerate-light/route.ts:93-104 for light.json
RegenLightSha(p) ==
  /\ pc[p] = "lightSha"
  /\ \E netOk \in BOOLEAN : sha' = [sha EXCEPT ![p] = ReadSha(light, netOk)]
  /\ Goto(p, "lightPut", <<"shaLight">>)
  /\ UNCHANGED <<env, feed, raw, light, glob, runs, cRawData, cFresh, cFinal,
                 fGlobal, fLight, cRead, hvars, xvars>>

\* regenerate-light/route.ts:106-127 for light.json, then 196-201
RegenLightPut(p) ==
  /\ pc[p] = "lightPut"
  /\ \E netOk \in BOOLEAN :
       IF netOk /\ Accepts(light, sha[p])
       THEN /\ light' = Written(light, JList(gOut[p]))
            /\ pc' = [pc EXCEPT ![p] = "done"]
            /\ trace' = [trace EXCEPT ![p] = @ \o <<"putLight">>]
            /\ resp' = [resp EXCEPT ![p] = "200 regenerated"]
            /\ UNCHANGED failStage
       ELSE /\ UNCHANGED light
            /\ RegenFail(p, "lightWrite", <<"putLightFail">>)
  /\ UNCHANGED <<env, feed, raw, glob, runs, sha, cRawData, cFresh, cFinal,
                 fGlobal, fLight, cRead, hvars, xvars>>

\* the response is delivered; the locals of the invocation are gone
RegenReturn(p) ==
  /\ pc[p] \in {"done", "failed"}
  /\ pc' = [pc EXCEPT ![p] = "idle"]
  /\ sha' = [sha EXCEPT ![p] = <<>>]
  /\ gRaw' = [gRaw EXCEPT ![p] = NoBody]
  /\ gOut' = [gOut EXCEPT ![p] = <<>>]
  /\ trace' = [trace EXCEPT ![p] = <<>>]
  /\ resp' = [resp EXCEPT ![p] = "none"]
  /\ failStage' = [failStage EXCEPT ![p] = "none"]
  /\ UNCHANGED <<env, feed, raw, light, glob, runs, cRawData, cFresh, cFinal,
                 fGlobal, fLight, cRead, hvars, uvars, kvars, lvars>>

RegenStep(p) ==
  \/ RegenStart(p)
  \/ RegenRawRead(p)
  \/ RegenLightSha(p)
  \/ RegenLightPut(p)
  \/ RegenReturn(p)

\* raw.json before a regenerate: none, a snapshot, a snapshot that
\* filterData throws on, a text that is not JSON
RegenRaws ==
  {AbsentDoc,
   StoredDoc(1, JList(<<aBTC, aWBTC, aXYZ>>)),
   StoredDoc(1, JOther("null")),
   StoredDoc(1, Garbage)}

InitRegen ==
  /\ env \in {EnvAll, [EnvAll EXCEPT !.token = FALSE]}
  /\ feed = Snapshots
  /\ raw \in RegenRaws
  /\ light \in InitLights
  /\ glob = AbsentDoc
  /\ ProcsIdle
  /\ HarnessIdle
  /\ CacheIdle
  /\ RankIdle
  /\ ClientIdle

NextRegen == \E p \in Regen : RegenStep(p)

SpecRegen == InitRegen /\ [][NextRegen]_vars

----------------------------------------------------------------------------
(* handler of src/app/api/update.js:1-48, the file-cache variant.  A       *)
(* request is two steps, the part before the await of fetch and the part   *)
(* after it; requests of one process interleave at the await.              *)

\* update.js:30
LightLimit == 20

\* what the upstream may answer with status 200: a body with `size` assets
\* under data, or a body with no data field
Payload(id, size) == [hasData |-> TRUE, id |-> id, size |-> size]
NoDataPayload(id) == [hasData |-> FALSE, id |-> id, size |-> 0]

Payloads == {Payload(1, 25), Payload(2, 3), NoDataPayload(3)}

\* json.data.slice(0, 20).map(...), update.js:28-36, told apart by the
\* payload it comes from
LightOf(json) == [from |-> json.id, count |-> Min(json.size, LightLimit)]

\* variant with a fault: the cache also counts as expired at exactly CACHE_DURATION
Expired_AtDuration(now) == now - lastFetch >= CACHE_DURATION

\* now - lastFetch > CACHE_DURATION, update.js:14
Expired(now) == now - lastFetch > CACHE_DURATION

\* update.js:10-17: the request arrives, with or without refresh=true; up to
\* the await of fetch, or the answer "cache valid" (update.js:44)
UpdArrive(p) ==
  /\ uReq[p].pc = "idle"
  /\ \E refresh \in BOOLEAN :
       LET now == clock
       IN  uReq' = [uReq EXCEPT ![p] =
             IF Expired(now) \/ refresh
             THEN [pc |-> "fetching", now |-> now, refresh |-> refresh, resp |-> "none"]
             ELSE [pc |-> "done", now |-> now, refresh |-> refresh,
                   resp |-> "200 cache valid"]]
  /\ UNCHANGED <<clock, lastFetch, rawFile, lightFile, uLastOk, pvars, hvars, gvars, kvars, lvars>>

\* update.js:17-41 and 45-47 after the await: the fetch rejects (caught,
\* 500), the response is not ok (its status, update.js:18-20), or it is a
\* body: the raw file is written, then json.data.slice throws on a body with
\* no data (caught, 500), else the light file is written and lastFetch = now
UpdFetched(p) ==
  /\ uReq[p].pc = "fetching"
  /\ \/ /\ uReq' = [uReq EXCEPT ![p].pc = "done", ![p].resp = "500 error"]
        /\ UNCHANGED <<lastFetch, rawFile, lightFile, uLastOk>>
     \/ /\ uReq' = [uReq EXCEPT ![p].pc = "done", ![p].resp = "upstream status"]
        /\ UNCHANGED <<lastFetch, rawFile, lightFile, uLastOk>>
     \/ \E json \in Payloads :
          /\ rawFile' = <<json>>
          /\ IF json.hasData
             THEN /\ lightFile' = <<LightOf(json)>>
                  /\ lastFetch' = uReq[p].now
                  /\ uLastOk' = uReq[p].now
                  /\ uReq' = [uReq EXCEPT ![p].pc = "done", ![p].resp = "200 updated"]
             ELSE /\ uReq' = [uReq EXCEPT ![p].pc = "done", ![p].resp = "500 error"]
                  /\ UNCHANGED <<lightFile, lastFetch, uLastOk>>
  /\ UNCHANGED <<clock, pvars, hvars, gvars, kvars, lvars>>

\* the response is delivered
UpdReturn(p) ==
  /\ uReq[p].pc = "done"
  /\ uReq' = [uReq EXCEPT ![p] = IdleReq]
  /\ UNCHANGED <<clock, lastFetch, rawFile, lightFile, uLastOk, pvars, hvars, gvars, kvars, lvars>>

\* time passes
Tick ==
  /\ clock < StartTime + MaxTicks * TickMs
  /\ clock' = clock + TickMs
  /\ UNCHANGED <<lastFetch, rawFile, lightFile, uReq, uLastOk, pvars, hvars, gvars, kvars, lvars>>

UpdStep(p) ==
  \/ UpdArrive(p)
  \/ UpdFetched(p)
  \/ UpdReturn(p)

InitCache ==
  /\ env = EnvAll
  /\ feed = Snapshots
  /\ raw = AbsentDoc
  /\ light = AbsentDoc
  /\ glob = AbsentDoc
  /\ ProcsIdle
  /\ HarnessIdle
  /\ CacheIdle
  /\ RankIdle
  /\ ClientIdle

NextCache ==
  \/ Tick
  \/ \E p \in Upd : UpdStep(p)

SpecCache == InitCache /\ [][NextCache]_vars

----------------------------------------------------------------------------
(* handler of src/app/api/cryptorank.js:1-46, the in-memory variant.  A    *)
(* request that finds the cache usable answers at once; another is two     *)
(* steps, the part before the await of fetch and the part after it.        *)

\* !cachedData || now - lastFetch > CACHE_DURATION, cryptorank.js:11
NeedsFetch(now) == cachedData = <<>> \/ now - kLastFetch > CACHE_DURATION

\* cryptorank.js:6-18 and 42: the request arrives; up to the await of fetch,
\* or the answer 200 with cachedData
RankArrive(p) ==
  /\ kReq[p].pc = "idle"
  /\ LET now == clock
     IN  kReq' = [kReq EXCEPT ![p] =
           IF NeedsFetch(now)
           THEN [pc |-> "fetching", now |-> now, fetch |-> "none", resp |-> "none",
                 body |-> <<>>]
           ELSE [pc |-> "done", now |-> now, fetch |-> "none", resp |-> "200",
                 body |-> cachedData]]
  /\ UNCHANGED <<cachedData, kLastFetch, kLatest, pvars, hvars, gvars, uvars, lvars>>

\* variant with a fault: a failed fetch is answered with the cached data when there is some
RankFetched_ServesStale(p) ==
  /\ kReq[p].pc = "fetching"
  /\ \/ /\ kReq' = [kReq EXCEPT ![p].pc = "done", ![p].fetch = "rejected",
                                 ![p].resp = IF cachedData = <<>> THEN "500" ELSE "200",
                                 ![p].body = cachedData]
        /\ UNCHANGED <<cachedData, kLastFetch, kLatest>>
     \/ /\ kReq' = [kReq EXCEPT ![p].pc = "done", ![p].fetch = "status",
                                 ![p].resp = "upstream status"]
        /\ UNCHANGED <<cachedData, kLastFetch, kLatest>>
     \/ \E json \in Payloads :
          IF json.hasData
          THEN /\ cachedData' = <<LightOf(json)>>
               /\ kLastFetch' = kReq[p].now
               /\ kLatest' = <<json>>
               /\ kReq' = [kReq EXCEPT ![p].pc = "done", ![p].fetch = "ok",
                                       ![p].resp = "200",
                                       ![p].body = <<LightOf(json)>>]
          ELSE /\ kReq' = [kReq EXCEPT ![p].pc = "done", ![p].fetch = "no data",
                                       ![p].resp = "500"]
               /\ UNCHANGED <<cachedData, kLastFetch, kLatest>>
  /\ UNCHANGED <<pvars, hvars, gvars, uvars, lvars>>

\* cryptorank.js:14-45 after the await: the fetch rejects (caught, 500), the
\* response is not ok (its status, cryptorank.js:20-22), or it is a body:
\* json.data.slice throws on a body with no data (caught, 500), else
\* cachedData and lastFetch are assigned and cachedData is the answer
RankFetched(p) ==
  /\ kReq[p].pc = "fetching"
  /\ \/ /\ kReq' = [kReq EXCEPT ![p].pc = "done", ![p].fetch = "rejected",
                                 ![p].resp = "500"]
        /\ UNCHANGED <<cachedData, kLastFetch, kLatest>>
     \/ /\ kReq' = [kReq EXCEPT ![p].pc = "done", ![p].fetch = "status",
                                 ![p].resp = "upstream status"]
        /\ UNCHANGED <<cachedData, kLastFetch, kLatest>>
     \/ \E json \in Payloads :
          IF json.hasData
          THEN /\ cachedData' = <<LightOf(json)>>
               /\ kLastFetch' = kReq[p].now
               /\ kLatest' = <<json>>
               /\ kReq' = [kReq EXCEPT ![p].pc = "done", ![p].fetch = "ok",
                                       ![p].resp = "200",
                                       ![p].body = <<LightOf(json)>>]
          ELSE /\ kReq' = [kReq EXCEPT ![p].pc = "done", ![p].fetch = "no data",
                                       ![p].resp = "500"]
               /\ UNCHANGED <<cachedData, kLastFetch, kLatest>>
  /\ UNCHANGED <<pvars, hvars, gvars, uvars, lvars>>

\* the response is delivered
RankReturn(p) ==
  /\ kReq[p].pc = "done"
  /\ kReq' = [kReq EXCEPT ![p] = IdleRank]
  /\ UNCHANGED <<cachedData, kLastFetch, kLatest, pvars, hvars, gvars, uvars, lvars>>

RankStep(p) ==
  \/ RankArrive(p)
  \/ RankFetched(p)
  \/ RankReturn(p)

InitRank == InitCache

NextRank ==
  \/ Tick
  \/ \E p \in Rank : RankStep(p)

SpecRank == InitRank /\ [][NextRank]_vars

----------------------------------------------------------------------------
(* GitHubClient of src/lib/github.ts:8-70.  commitFile is two steps, the   *)
(* getFile it awaits and the PUT; calls interleave at the awaits.          *)

\* what the GET of the contents API can end in: the fetch rejects, a status
\* that is not ok (404 for no file, 401, 403), a body that is not JSON, the
\* listing of a directory (JSON with no content field), or the file
GetReplies(doc) ==
  {"rejected", "status", "not json", "listing"}
    \cup (IF doc.exists THEN {"document"} ELSE {})

\* variant with a fault: the body is parsed and decoded outside the try
getFile_ParseOutsideTry(doc, reply) ==
  [raised |-> reply \in {"not json", "listing"},
   val    |-> IF reply = "document"
              THEN <<[content |-> doc.body, sha |-> doc.rev]>>
              ELSE <<>>]

\* getFile, github.ts:18-42: the whole body is in the try, whose catch
\* returns null (<<>>); a response that is not ok returns null
getFile(doc, reply) ==
  [raised |-> FALSE,
   val    |-> IF reply = "document"
              THEN <<[content |-> doc.body, sha |-> doc.rev]>>
              ELSE <<>>]

\* the contents commitFile is called with
ClientContents == {JList(<<aBTC>>), JList(<<aXYZ>>)}

\* commitFile, github.ts:44-45: the call and its getFile
ClientGet(p) ==
  /\ client[p].pc = "idle"
  /\ commits < MaxRuns
  /\ commits' = commits + 1
  /\ \E content \in ClientContents, reply \in GetReplies(file) :
       LET r == getFile(file, reply)
       IN  client' = [client EXCEPT ![p] =
             [pc |-> IF r.raised THEN "done" ELSE "put", content |-> content,
              got |-> reply, existing |-> r.val, token |-> <<>>,
              out |-> IF r.raised THEN "raised" ELSE "none"]]
  /\ UNCHANGED <<file, pvars, hvars, gvars, uvars, kvars>>

\* commitFile, github.ts:47-68: the PUT, with sha when existingFile is not
\* null; the fetch rejects, or the store answers: ok when it is up and the
\* sha fits, else not ok, and commitFile throws
ClientPut(p) ==
  /\ client[p].pc = "put"
  /\ LET existingFile == client[p].existing
         token == IF existingFile # <<>> THEN <<existingFile[1].sha>> ELSE <<>>
     IN  \E net \in {"up", "denied", "down"} :
           IF net = "up" /\ Accepts(file, token)
           THEN /\ file' = Written(file, client[p].content)
                /\ client' = [client EXCEPT ![p].pc = "done", ![p].token = token,
                                             ![p].out = "returned"]
           ELSE /\ client' = [client EXCEPT ![p].pc = "done", ![p].token = token,
                                             ![p].out = "raised"]
                /\ UNCHANGED file
  /\ UNCHANGED <<commits, pvars, hvars, gvars, uvars, kvars>>

\* the call has returned or thrown
ClientReturn(p) ==
  /\ client[p].pc = "done"
  /\ client' = [client EXCEPT ![p] = IdleCall]
  /\ UNCHANGED <<file, commits, pvars, hvars, gvars, uvars, kvars>>

ClientStep(p) ==
  \/ ClientGet(p)
  \/ ClientPut(p)
  \/ ClientReturn(p)

InitClient ==
  /\ env = EnvAll
  /\ feed = Snapshots
  /\ raw = AbsentDoc
  /\ light = AbsentDoc
  /\ glob = AbsentDoc
  /\ ProcsIdle
  /\ HarnessIdle
  /\ CacheIdle
  /\ RankIdle
  /\ file \in InitRaws
  /\ ClientCallsIdle

NextClient == \E p \in Clients : ClientStep(p)

SpecClient == InitClient /\ [][NextClient]_vars

----------------------------------------------------------------------------
(* The three handlers that write to the store, together, with every        *)
(* network call of a run that has started eventually returning or failing: *)
(* a run that is not idle eventually takes its next step.  Whether a run   *)
(* starts at all is up to the caller.                                      *)

\* the configuration complete or without a token, an empty store, a feed
\* that answers with a list or with null
InitLive ==
  /\ env \in {EnvAll, [EnvAll EXCEPT !.token = FALSE]}
  /\ feed = {JList(<<aBTC, aWBTC, aXYZ>>), JOther("null")}
  /\ raw = AbsentDoc
  /\ light = AbsentDoc
  /\ glob = AbsentDoc
  /\ ProcsIdle
  /\ HarnessIdle
  /\ CacheIdle
  /\ RankIdle
  /\ ClientIdle

NextLive ==
  \/ \E p \in Cron : CronStep(p)
  \/ \E p \in Fgi : FgiStep(p)
  \/ \E p \in Regen : RegenStep(p)

CallsReturn ==
  /\ \A p \in Cron : WF_vars(pc[p] # "idle" /\ CronStep(p))
  /\ \A p \in Fgi : WF_vars(pc[p] # "idle" /\ FgiStep(p))
  /\ \A p \in Regen : WF_vars(pc[p] # "idle" /\ RegenStep(p))

SpecLive == InitLive /\ [][NextLive]_vars /\ CallsReturn

----------------------------------------------------------------------------
(* Properties *)

InTrace(p, e) == \E i \in 1..Len(trace[p]) : trace[p][i] = e

CountTrace(p, E) == Cardinality({i \in 1..Len(trace[p]) : trace[p][i] \in E})

\* the step is one of invocation p
StepOf(p) == pc'[p] # pc[p]

IsListDoc(doc) == doc.exists /\ doc.body.kind = "list"

DocHasFGI(doc) == IsListDoc(doc) /\ HasSymbol(doc.body.items, FGISymbol)

\* the read gave the run a list
ReadGaveList(rd) == rd.ok /\ rd.val.kind = "list"

\* the FGI entry that the read gave the run, <<>> when it gave none
ReadFGI(rd) ==
  IF ReadGaveList(rd) THEN FindSymbol(rd.val.items, FGISymbol) ELSE <<>>

\* C1 as claimed: when a cron run completes, raw.json is the snapshot of the
\* run and light.json is filter(snapshot) followed by the FGI entry of the
\* light.json that was persisted before the write, when it had one.
C1_AsClaimed ==
  [][\A p \in Cron :
       (pc[p] = "lightPut" /\ pc'[p] = "done") =>
          /\ raw'.body = cRawData[p]
          /\ light'.body =
               JList(filterData(cRawData[p]).out
                       \o (IF DocHasFGI(light)
                           THEN FindSymbol(light.body.items, FGISymbol)
                           ELSE <<>>))]_vars

\* C1 amended: the raw write of a cron run stores the snapshot fetched in that
\* run, and the light write of the run stores filter(snapshot) followed by the
\* first FGI entry of the light.json that the run read, when that read gave a
\* list with such an entry, and filter(snapshot) alone otherwise.
C1_RunWritesSnapshotAndMerge ==
  [][\A p \in Cron :
       /\ (pc[p] = "rawPut" /\ StepOf(p) /\ raw' # raw) =>
             (raw'.exists /\ raw'.body = cRawData[p])
       /\ (pc[p] = "lightPut" /\ pc'[p] = "done") =>
             /\ light'.exists
             /\ light'.body =
                  JList(filterData(cRawData[p]).out \o ReadFGI(cRead[p]))]_vars

C1_Witness ==
  \E p \in Cron :
    /\ pc[p] = "done"
    /\ ReadFGI(cRead[p]) # <<>>
    /\ Len(cFresh[p]) >= 2
    /\ light.body = JList(cFresh[p] \o ReadFGI(cRead[p]))
    /\ raw.body = cRawData[p]

\* C2 as claimed: a light.json write of a cron run that replaces a version
\* with an FGI entry writes a list that contains that same entry.  (Stated
\* for the runs whose own read of light.json gave a list; the run whose read
\* failed drops the entry by design.)
C2_FGINeverRolledBack ==
  [][\A p \in Cron :
       (/\ pc[p] = "lightPut" /\ pc'[p] = "done"
        /\ ReadGaveList(cRead[p])
        /\ DocHasFGI(light)) =>
          \E i \in 1..Len(light'.body.items) :
             light'.body.items[i] = FindSymbol(light.body.items, FGISymbol)[1]]_vars

Canon ==
  <<"fetch", "shaRaw", "putRaw", "filter", "readLight", "merge", "shaLight", "putLight">>

CanonSet == {Canon[i] : i \in 1..Len(Canon)}

IndexIn(t, e) == MinOf({i \in 1..Len(t) : t[i] = e})

\* C3: in a cron run the stages happen in the order fetch, raw write, filter,
\* read of the previous light.json, merge, light write; the failure of a stage
\* is the last event of the run; a completed run has made each step once, so
\* one write per document; and the store changes only in a logged write.
C3_StageOrder ==
  /\ [](\A p \in Cron :
          LET t == trace[p]
              okPart == SelectSeq(t, LAMBDA e : e \in CanonSet)
          IN  /\ Len(okPart) <= Len(Canon)
              /\ okPart = SubSeq(Canon, 1, Len(okPart))
              /\ \A i \in 1..(Len(t) - 1) : t[i] \in CanonSet
              /\ pc[p] = "done" => t = Canon
              /\ InTrace(p, "putLight") =>
                   /\ InTrace(p, "putRaw") /\ InTrace(p, "readLight")
                   /\ IndexIn(t, "putRaw") < IndexIn(t, "readLight")
                   /\ IndexIn(t, "readLight") < IndexIn(t, "putLight")
              /\ CountTrace(p, {"putRaw"}) <= 1
              /\ CountTrace(p, {"putLight"}) <= 1)
  /\ [][/\ raw' # raw =>
             \E p \in Cron : CountTrace(p, {"putRaw"}) = 0
                             /\ \E i \in 1..Len(trace'[p]) : trace'[p][i] = "putRaw"
        /\ light' # light =>
             \E p \in Procs : CountTrace(p, {"putLight"}) = 0
                              /\ \E i \in 1..Len(trace'[p]) : trace'[p][i] = "putLight"]_vars

C3_Witness ==
  \E p \in Cron :
    /\ pc[p] = "done"
    /\ trace[p] = Canon
    /\ raw.body = cRawData[p]
    /\ light.body = JList(cFinal[p])

\* the token of the run is older than the revision of the document
Stale(doc, token) == doc.exists /\ token # <<>> /\ token[1] < doc.rev

\* C4: a write with a token older than the current revision leaves the
\* document unchanged and ends the run as a failure with a 500 response; a
\* failed run makes no further step but its return, and no run attempts the
\* write of a document twice.
C4_StaleWriteRejected ==
  /\ [][\A p \in Cron :
          /\ (pc[p] = "rawPut" /\ StepOf(p) /\ Stale(raw, sha[p])) =>
                (raw' = raw /\ pc'[p] = "failed" /\ failStage'[p] = "rawWrite"
                 /\ resp'[p] = "500 Failed to process request")
          /\ (pc[p] = "lightPut" /\ StepOf(p) /\ Stale(light, sha[p])) =>
                (light' = light /\ pc'[p] = "failed" /\ failStage'[p] = "lightWrite"
                 /\ resp'[p] = "500 Failed to process request")
          /\ (pc[p] = "failed" /\ StepOf(p)) =>
                (pc'[p] = "idle" /\ raw' = raw /\ light' = light)]_vars
  /\ [](\A p \in Cron :
          /\ CountTrace(p, {"putRaw", "putRawFail"}) <= 1
          /\ CountTrace(p, {"putLight", "putLightFail"}) <= 1)

C4_Witness ==
  \E p \in Cron, q \in Cron :
    /\ p # q
    /\ pc[p] = "failed" /\ failStage[p] = "rawWrite"
    /\ Stale(raw, sha[p])
    /\ InTrace(q, "putRaw") /\ raw.body = cRawData[q]

\* C5: a cron run whose snapshot fetch fails ends as a failure with a 500
\* response in that step, has written nothing, and writes nothing afterwards.
C5_FetchFailureNoWrite ==
  /\ [](\A p \in Cron :
          InTrace(p, "fetchFail") =>
             /\ pc[p] = "failed"
             /\ failStage[p] = "fetch"
             /\ resp[p] = "500 Failed to process request"
             /\ trace[p] = <<"fetchFail">>)
  /\ [][\A p \in Cron :
          /\ (pc[p] = "fetch" /\ StepOf(p)) => (raw' = raw /\ light' = light)
          /\ (pc[p] = "failed" /\ StepOf(p)) =>
                (pc'[p] = "idle" /\ raw' = raw /\ light' = light)]_vars

C5_Witness ==
  \E p \in Cron :
    /\ pc[p] = "failed" /\ failStage[p] = "fetch"
    /\ InTrace(p, "fetchFail")
    /\ raw.exists

AfterRawPut == {"lightRead", "lightSha", "lightPut"}

ReadFailed(rd) == rd.why # "unread" /\ ~ReadGaveList(rd)

\* C7: when the read of the previous light.json gives no list (absent
\* document, failed request, text that does not parse, value that is not an
\* array), the step does not abort the run, the merged list is the filter
\* output, and the light write of the run stores exactly the filter output.
C7_ReadFailureAbsorbed ==
  /\ [][\A p \in Cron :
          /\ (pc[p] = "lightRead" /\ StepOf(p)
                /\ \/ ~light.exists
                   \/ light.body.kind # "list"
                   \/ ReadFailed(cRead'[p])) =>
                (/\ pc'[p] = "lightSha"
                 /\ failStage'[p] = "none"
                 /\ ReadFailed(cRead'[p])
                 /\ cFinal'[p] = filterData(cRawData[p]).out)
          /\ (pc[p] = "lightPut" /\ pc'[p] = "done" /\ ReadFailed(cRead[p])) =>
                light'.body = JList(filterData(cRawData[p]).out)]_vars
  /\ [](\A p \in Cron :
          (ReadFailed(cRead[p]) /\ pc[p] = "failed") => failStage[p] = "lightWrite")

C7_Witness ==
  \E p \in Cron :
    /\ pc[p] = "done"
    /\ cRead[p].ok /\ cRead[p].val.kind = "object"
    /\ Len(cFresh[p]) >= 2
    /\ light.body = JList(cFresh[p])

\* C8: for a fresh list with no FGI entry and a previous list with one, the
\* merge gives the fresh list, element for element, followed by the (first)
\* FGI entry of the previous list, unmodified: one element more.
C8_MergeAppendsFGI ==
  (/\ hStage = "merged"
   /\ ~HasSymbol(hOut, FGISymbol)
   /\ ReadGaveList(hPrev)
   /\ HasSymbol(hPrev.val.items, FGISymbol)) =>
     /\ Len(hMerged) = Len(hOut) + 1
     /\ \A i \in 1..Len(hOut) : hMerged[i] = hOut[i]
     /\ \E j \in 1..Len(hPrev.val.items) :
          /\ hPrev.val.items[j].symbol = FGISymbol
          /\ \A k \in 1..(j - 1) : hPrev.val.items[k].symbol # FGISymbol
          /\ hMerged[Len(hOut) + 1] = hPrev.val.items[j]

C8_Witness ==
  /\ hStage = "merged"
  /\ Len(hOut) >= 2
  /\ ~HasSymbol(hOut, FGISymbol)
  /\ ReadGaveList(hPrev)
  /\ Len(hPrev.val.items) >= 2
  /\ HasSymbol(hPrev.val.items, FGISymbol)
  /\ hMerged[Len(hMerged)].symbol = FGISymbol

\* C9 as claimed: the merged list of a cron run has at most one FGI entry,
\* also when the filter output has one; the entry kept is then the one read
\* from the previous light.json.
C9_AtMostOneFGI ==
  hStage = "merged" =>
    /\ CountSymbol(hMerged, FGISymbol) <= 1
    /\ (HasSymbol(hOut, FGISymbol) /\ ReadFGI(hPrev) # <<>>) =>
          FindSymbol(hMerged, FGISymbol) = ReadFGI(hPrev)

IsSortedDesc(s) == \A i \in 1..(Len(s) - 1) : s[i].h24 >= s[i + 1].h24

----------------------------------------------------------------------------
(* Properties of filterData on its own *)

Filtered == hStage \in {"filtered", "merged"}

\* the assets of the snapshot that filterData was given
InputAssets == ExtractCryptos(hIn).items

\* the name has one of the three substrings
DerivativeName(x) ==
  \/ Includes(x.name, "Wrapped")
  \/ Includes(x.name, "Staked")
  \/ Includes(x.name, "Restaked")

PriorityRank(sym) == MinOf({k \in 1..Len(prioritySymbols) : prioritySymbols[k] = sym})

IsPrioritySymbol(sym) == sym \in {"BTC", "ETH", "SOL", "BNB"}

\* C11: in the output of filterData the entries with a priority symbol come
\* in the order BTC, ETH, SOL, BNB, whatever their place in the input, and
\* before every other entry; a priority symbol has an entry exactly when the
\* input has an asset with it whose name is not excluded.
C11_PriorityOrder ==
  Filtered =>
    /\ \A i \in 1..Len(hOut) : \A j \in 1..Len(hOut) :
         (i < j /\ IsPrioritySymbol(hOut[j].symbol)) =>
            /\ IsPrioritySymbol(hOut[i].symbol)
            /\ PriorityRank(hOut[i].symbol) < PriorityRank(hOut[j].symbol)
    /\ \A sym \in {"BTC", "ETH", "SOL", "BNB"} :
         HasSymbol(hOut, sym) <=>
           \E i \in 1..Len(InputAssets) :
              InputAssets[i].symbol = sym /\ ~DerivativeName(InputAssets[i])

C11_Witness ==
  /\ hStage = "filtered"
  /\ Len(InputAssets) > Capacity
  /\ InputAssets[1].symbol = "SOL"
  /\ InputAssets[2].symbol = "WBTC"
  /\ InputAssets[Len(InputAssets)].symbol = "BTC"
  /\ hOut[1].symbol = "BTC"
  /\ hOut[2].symbol = "SOL"
  /\ ~IsPrioritySymbol(hOut[3].symbol)

\* C12: in the output of filterData two neighbours that are both non-priority
\* entries are in descending order of h24.
C12_OthersDescending ==
  Filtered =>
    \A i \in 1..(Len(hOut) - 1) :
       (~IsPrioritySymbol(hOut[i].symbol) /\ ~IsPrioritySymbol(hOut[i + 1].symbol)) =>
          hOut[i].h24 >= hOut[i + 1].h24

C12_Witness ==
  /\ hStage = "filtered"
  /\ Len(hOut) >= 4
  /\ \E i \in 1..(Len(InputAssets) - 1) :
       /\ InputAssets[i].symbol = "ALT"
       /\ InputAssets[i + 1].symbol = "ALT"
       /\ InputAssets[i].pch[1] < InputAssets[i + 1].pch[1]
  /\ ~IsPrioritySymbol(hOut[1].symbol)
  /\ hOut[1].h24 > hOut[2].h24
  /\ hOut[2].h24 > hOut[Len(hOut)].h24

\* C13: no entry of the output of filterData has a name with "Wrapped",
\* "Staked" or "Restaked"; an input asset whose name has none of them is in
\* the output, unless the output is full (truncation) or the asset has a
\* priority symbol, for which the output has the entry of one asset of that
\* symbol.
C13_DerivativesExcluded ==
  Filtered =>
    /\ \A i \in 1..Len(hOut) : ~DerivativeName(hOut[i])
    /\ \A i \in 1..Len(InputAssets) :
         LET a == InputAssets[i]
         IN  ~DerivativeName(a) =>
               IF IsPrioritySymbol(a.symbol)
               THEN HasSymbol(hOut, a.symbol)
               ELSE \/ Len(hOut) = Capacity
                    \/ \E j \in 1..Len(hOut) :
                         /\ hOut[j].symbol = a.symbol
                         /\ hOut[j].name = a.name
                         /\ hOut[j].price = a.price

C13_Witness ==
  /\ hStage = "filtered"
  /\ Len(InputAssets) >= 4
  /\ Includes(InputAssets[1].name, "Restaked")
  /\ Includes(InputAssets[2].name, "wrapped")
  /\ Len(hOut) = Len(InputAssets) - 1
  /\ \E j \in 1..Len(hOut) : hOut[j].name = InputAssets[2].name

\* the non-priority entries of s with h24 = v, in the order of s
OthersWith(s, v) ==
  SelectSeq(s, LAMBDA c : ~IsPrioritySymbol(c.symbol) /\ c.h24 = v)

\* the projections of the assets of the input that are not excluded
InputEntries ==
  LET kept == SelectSeq(InputAssets, LAMBDA a : ~DerivativeName(a))
  IN  [i \in 1..Len(kept) |->
         Entry(kept[i].symbol, kept[i].name, kept[i].price,
               IF kept[i].pch = <<>> THEN 0 ELSE kept[i].pch[1])]

\* C20: the non-priority entries of the output with the same h24 are in the
\* order of their assets in the input: they are the first ones, in input
\* order, of the input's non-priority assets with that h24.
C20_TiesKeepInputOrder ==
  Filtered =>
    \A v \in {hOut[i].h24 : i \in 1..Len(hOut)} :
       LET got == OthersWith(hOut, v)
           src == OthersWith(InputEntries, v)
       IN  /\ Len(got) <= Len(src)
           /\ got = SubSeq(src, 1, Len(got))

C20_Witness ==
  /\ hStage = "filtered"
  /\ \E i \in 1..(Len(hOut) - 1) :
       /\ ~IsPrioritySymbol(hOut[i].symbol)
       /\ hOut[i].symbol = hOut[i + 1].symbol
       /\ hOut[i].h24 = hOut[i + 1].h24
       /\ hOut[i].price < hOut[i + 1].price
  /\ \E i \in 1..(Len(hOut) - 1) :
       /\ hOut[i].symbol = "XYZ"
       /\ hOut[i + 1].symbol = "ALT"

----------------------------------------------------------------------------
(* Properties of the handlers: configuration, failures, repeated runs *)

\* the payload is neither an array nor an object with an array under data
Malformed(rawData) == rawData.kind \notin {"list", "wrapped"}

\* C14: for a snapshot that is neither a sequence nor an object with a
\* sequence under data (null among them) filterData returns the empty list
\* without raising: a run that wrote such a snapshot to raw.json does not
\* fail in the filter stage, and its filter output is the empty list.
C14_MalformedGivesEmpty ==
  \A p \in Cron :
    (InTrace(p, "putRaw") /\ Malformed(cRawData[p])) =>
       /\ failStage[p] # "filter"
       /\ ~InTrace(p, "filterThrow")
       /\ cFresh[p] = <<>>

\* the events of a trace that are requests to the source or to the store
IOEvents ==
  {"fetch", "fetchFail", "shaRaw", "putRaw", "putRawFail", "readLight",
   "shaLight", "putLight", "putLightFail"}

\* C17: when the source URL or one of the store's token, owner and repo is
\* not configured, a cron run fails before any I/O: its trace has no fetch
\* of the snapshot and no read or write of the store.
C17_ConfigFailureNoIO ==
  \A p \in Cron :
    (pc[p] # "idle" /\ (~env.apiUrl \/ ~credsOk)) =>
       \A i \in 1..Len(trace[p]) : trace[p][i] \notin IOEvents

\* C18: the read of the sha before a PUT never aborts the run: whatever the
\* read gives, the next step is the PUT, with the sha of the document when
\* the read gave one and with no sha otherwise (failed request, non-ok
\* response); a PUT with no sha is issued, and when the store takes it the
\* document did not exist and is created.
C18_ShaReadFailureStillWrites ==
  [][\A p \in Cron :
       /\ (pc[p] = "rawSha" /\ StepOf(p)) =>
             /\ pc'[p] = "rawPut"
             /\ sha'[p] \in {<<>>, <<raw.rev>>}
             /\ sha'[p] # <<>> => raw.exists
       /\ (pc[p] = "lightSha" /\ StepOf(p)) =>
             /\ pc'[p] = "lightPut"
             /\ sha'[p] \in {<<>>, <<light.rev>>}
             /\ sha'[p] # <<>> => light.exists
       /\ (pc[p] = "rawPut" /\ StepOf(p) /\ sha[p] = <<>>) =>
             /\ \/ trace'[p] = trace[p] \o <<"putRawFail">>
                \/ \E e \in {"filter", "filterThrow"} :
                      trace'[p] = trace[p] \o <<"putRaw", e>>
             /\ raw' # raw => (~raw.exists /\ raw' = StoredDoc(1, cRawData[p]))
       /\ (pc[p] = "lightPut" /\ StepOf(p) /\ sha[p] = <<>>) =>
             /\ \E e \in {"putLight", "putLightFail"} :
                   trace'[p] = trace[p] \o <<e>>
             /\ light' # light =>
                   (~light.exists /\ light' = StoredDoc(1, JList(cFinal[p])))]_vars

\* the only run so far read no sha for raw.json although raw.json exists,
\* and has issued its PUT
C18_Witness ==
  \E p \in Cron :
    /\ runs = 1
    /\ raw.exists
    /\ sha[p] = <<>>
    /\ trace[p] = <<"fetch", "shaRaw", "putRawFail">>
    /\ pc[p] = "failed"

\* C19: every failed cron run returns one outcome record that has
\* success = false, names the stage of the abort and has a detail string.
C19_FailureOutcome ==
  \A p \in Cron :
    (pc[p] = "failed" /\ failStage[p] \in {"fetch", "rawWrite", "filter", "lightWrite"}) =>
       {"success", "stage", "details"} \subseteq ResponseFields(resp[p])

\* C16: with one snapshot at the source and no other writer, a cron run that
\* follows a run that wrote light.json, and whose read of light.json gave
\* it the list, writes the same list again; a raw write over a raw.json that
\* a run wrote leaves the content as it was.
C16_SecondRunSameDocuments ==
  [][/\ (/\ pc["c1"] = "lightPut" /\ pc'["c1"] = "done"
         /\ light.rev >= 1
         /\ ReadGaveList(cRead["c1"])) => light'.body = light.body
     /\ (/\ pc["c1"] = "rawPut" /\ raw' # raw
         /\ raw.rev >= 1) => raw'.body = raw.body]_vars

----------------------------------------------------------------------------
(* More properties of filterData on its own *)

\* the list of filterData before the slice
BeforeTruncation == hSt.pri \o hSt.oth

CountIn(s, e) == Cardinality({i \in 1..Len(s) : s[i] = e})

InputSymbols == {InputAssets[i].symbol : i \in 1..Len(InputAssets)}

\* C21 as claimed: every non-excluded input asset has its own entry in the
\* list before truncation, for priority and non-priority symbols alike: a
\* symbol has as many entries there as the input has non-excluded assets
\* with it.
C21_AsClaimed ==
  Filtered =>
    \A sym \in InputSymbols :
       CountSymbol(BeforeTruncation, sym) = CountSymbol(InputEntries, sym)

\* C21 amended: a non-priority symbol has as many entries in the list before
\* truncation as the input has non-excluded assets with it; a priority
\* symbol has one entry there, the projection of the first non-excluded
\* input asset with it, however many the input has.
C21_DuplicatesKept ==
  Filtered =>
    \A sym \in InputSymbols :
       IF IsPrioritySymbol(sym)
       THEN \/ /\ CountSymbol(InputEntries, sym) = 0
                /\ CountSymbol(BeforeTruncation, sym) = 0
            \/ \E i \in 1..Len(InputEntries) :
                  /\ InputEntries[i].symbol = sym
                  /\ \A j \in 1..(i - 1) : InputEntries[j].symbol # sym
                  /\ SelectSeq(BeforeTruncation, LAMBDA c : c.symbol = sym)
                        = <<InputEntries[i]>>
       ELSE CountSymbol(BeforeTruncation, sym) = CountSymbol(InputEntries, sym)

C21_Witness ==
  /\ hStage = "filtered"
  /\ Len(InputAssets) >= 4
  /\ InputAssets[1].symbol = "BTC"
  /\ InputAssets[Len(InputAssets)].symbol = "BTC"
  /\ InputAssets[1].price # InputAssets[Len(InputAssets)].price
  /\ CountSymbol(InputEntries, "ALT") = 2
  /\ CountSymbol(BeforeTruncation, "ALT") = 2
  /\ CountSymbol(BeforeTruncation, "BTC") = 1
  /\ BeforeTruncation[1].price = InputAssets[1].price

\* C22: every entry of the output of filterData is the projection of a
\* non-excluded asset of the input (symbol, name and price copied, h24 the
\* asset's percentChange.h24 or 0 when that is absent or null), and the
\* output has an entry no more often than the input has assets that
\* project to it.
C22_EntriesAreProjections ==
  Filtered =>
    \A i \in 1..Len(hOut) :
       /\ CountIn(InputEntries, hOut[i]) >= 1
       /\ CountIn(hOut, hOut[i]) <= CountIn(InputEntries, hOut[i])

C22_Witness ==
  /\ hStage = "filtered"
  /\ Len(InputAssets) > Capacity
  /\ InputAssets[1].symbol = "ETH"
  /\ InputAssets[1].pch = <<>>
  /\ DerivativeName(InputAssets[2])
  /\ Len(hOut) = Capacity
  /\ hOut[1] = Entry("ETH", InputAssets[1].name, InputAssets[1].price, 0)

\* C23: an asset of the input with no name field does not make filterData
\* raise.
C23_NoNameTolerated ==
  (hStage # "input" /\ \E i \in 1..Len(InputAssets) : ~InputAssets[i].hasName) =>
     hStage # "threw"

----------------------------------------------------------------------------
(* Properties of the FGI updater *)

NonFGI(s) == SelectSeq(s, LAMBDA c : c.symbol # "FGI")

\* the entries that the read of light.json gave the run, none when it failed
ReadItems(rd) == IF ReadGaveList(rd) THEN rd.val.items ELSE <<>>

\* C26: the write of light.json of a successful FGI updater run stores a list
\* with one FGI entry, at index 0, with price = fearGreed and h24 =
\* altcoinIndex of the global data that the run fetched, followed by the
\* entries that the run read from light.json without the FGI entries, in
\* their order.
C26_FgiFirstThenRest ==
  [][\A p \in Fgi :
       (pc[p] = "lightPut" /\ pc'[p] = "done") =>
          /\ light'.exists
          /\ light'.body.kind = "list"
          /\ LET l == light'.body.items
             IN  /\ Len(l) >= 1
                 /\ l[1].symbol = "FGI"
                 /\ l[1].price = fGlobal[p].fearGreed
                 /\ l[1].h24 = fGlobal[p].altcoinIndex
                 /\ CountSymbol(l, "FGI") = 1
                 /\ Tail(l) = NonFGI(ReadItems(cRead[p]))]_vars

C26_Witness ==
  \E p \in Fgi :
    /\ pc[p] = "done"
    /\ Len(ReadItems(cRead[p])) >= 2
    /\ ReadItems(cRead[p])[Len(ReadItems(cRead[p]))].symbol = "FGI"
    /\ ReadItems(cRead[p])[Len(ReadItems(cRead[p]))].price # fGlobal[p].fearGreed
    /\ light.body.items[1].price = fGlobal[p].fearGreed
    /\ Len(light.body.items) = Len(ReadItems(cRead[p]))

\* C27: the write of light.json of a successful FGI updater run leaves the
\* entries that are not FGI as they are in the version it replaces, also
\* when the run's own read of light.json failed and when a cron run wrote
\* light.json after that read.
C27_FgiWriteKeepsOthers ==
  [][\A p \in Fgi :
       (pc[p] = "lightPut" /\ pc'[p] = "done" /\ IsListDoc(light)) =>
          NonFGI(light'.body.items) = NonFGI(light.body.items)]_vars

C25_RegenFilterSameAsCron ==
  hStage = "regen" => hOutR = hOut

\* C24: a successful regenerate keeps the FGI entry: when light.json has an
\* entry with symbol FGI before the write of a regenerate run, it has that
\* entry after it.
C24_RegenKeepsFGI ==
  [][\A p \in Regen :
       (pc[p] = "lightPut" /\ pc'[p] = "done" /\ DocHasFGI(light)) =>
          /\ DocHasFGI(light')
          /\ FindSymbol(light'.body.items, "FGI") = FindSymbol(light.body.items, "FGI")]_vars

----------------------------------------------------------------------------
(* Properties of the update handler *)

Arrives(p) == uReq[p].pc = "idle" /\ uReq'[p].pc # "idle"

\* C29: a request to the update handler that arrives no more than
\* CACHE_DURATION after the arrival of the refresh that succeeded last, and
\* without refresh=true, is answered "cache valid" in the same step, starts
\* no fetch and leaves the two files and lastFetch as they are; a request
\* with refresh=true, one that arrives later than that, and one that arrives
\* when no refresh has succeeded, starts a fetch.
C29_CacheValidWithinDuration ==
  [][\A p \in Upd :
       Arrives(p) =>
          IF /\ uLastOk # 0
             /\ clock - uLastOk <= CACHE_DURATION
             /\ ~uReq'[p].refresh
          THEN /\ uReq'[p].pc = "done"
               /\ uReq'[p].resp = "200 cache valid"
               /\ <<rawFile', lightFile', lastFetch'>> = <<rawFile, lightFile, lastFetch>>
          ELSE /\ uReq'[p].pc = "fetching"
               /\ uReq'[p].now = clock]_vars

\* a request that arrived exactly CACHE_DURATION after the last refresh has
\* been answered from the cache, after a failed refresh in between
C29_Witness ==
  \E p \in Upd :
    /\ uReq[p].pc = "done"
    /\ uReq[p].resp = "200 cache valid"
    /\ uReq[p].now = lastFetch + CACHE_DURATION
    /\ lastFetch = StartTime + TickMs
    /\ rawFile # <<>> /\ ~rawFile[1].hasData
    /\ lightFile # <<>>

\* C30: two requests to the update handler without refresh=true that overlap
\* are never both fetching.
C30_NoOverlappingFetches ==
  \A p \in Upd : \A q \in Upd :
     (p # q /\ uReq[p].pc = "fetching" /\ uReq[q].pc = "fetching") =>
        (uReq[p].refresh \/ uReq[q].refresh)

\* C31: a refresh of the update handler that fails (the upstream answers
\* with a non-success status, the fetch rejects, or the payload has no data
\* sequence) leaves lastFetch, the raw file and the light file as they were,
\* and so the two files always come from the same payload.
C31_FailedRefreshChangesNothing ==
  /\ [](\/ rawFile = <<>> /\ lightFile = <<>>
        \/ /\ rawFile # <<>> /\ lightFile # <<>>
           /\ lightFile[1].from = rawFile[1].id)
  /\ [][\A p \in Upd :
          (uReq[p].pc = "fetching" /\ uReq'[p].pc = "done"
             /\ uReq'[p].resp # "200 updated") =>
             <<lastFetch', rawFile', lightFile'>> = <<lastFetch, rawFile, lightFile>>]_vars

\* C32: in the cryptorank handler cachedData is non-null exactly when
\* lastFetch is non-zero; every 200 response carries the first 20 assets of
\* the upstream fetch that succeeded last; a failed upstream fetch leaves
\* cachedData and lastFetch as they were and is answered with an error
\* status and without the cached data.
C32_MemoryCache ==
  /\ [](cachedData # <<>> <=> kLastFetch # 0)
  /\ [][\A p \in Rank :
          /\ (kReq[p].pc # "done" /\ kReq'[p].pc = "done" /\ kReq'[p].resp = "200") =>
                /\ kLatest' # <<>>
                /\ kReq'[p].body =
                     <<[from |-> kLatest'[1].id,
                        count |-> IF kLatest'[1].size < 20 THEN kLatest'[1].size ELSE 20]>>
          /\ (kReq[p].pc = "fetching" /\ kReq'[p].pc = "done"
                /\ kReq'[p].fetch # "ok") =>
                /\ <<cachedData', kLastFetch'>> = <<cachedData, kLastFetch>>
                /\ kReq'[p].resp \in {"500", "upstream status"}
                /\ kReq'[p].body = <<>>]_vars

\* a fetch has failed while there was cached data, and another request has
\* been answered 200 from the cache
C32_Witness ==
  /\ cachedData # <<>>
  /\ kReq["k1"].pc = "done" /\ kReq["k1"].fetch \in {"rejected", "status", "no data"}
  /\ kReq["k2"].pc = "done" /\ kReq["k2"].fetch = "none" /\ kReq["k2"].resp = "200"
  /\ kReq["k2"].body[1].count = 20

\* C33: getFile never raises, and returns null for every reply that is not
\* the file; commitFile sends a sha exactly when its getFile returned a
\* document, the sha of that document, and raises when the write is not
\* accepted.
C33_ClientReadAndCommit ==
  [][\A p \in Clients :
       /\ (client[p].pc = "idle" /\ client'[p].pc # "idle") =>
             /\ client'[p].out # "raised"
             /\ client'[p].pc = "put"
             /\ IF client'[p].got = "document"
                THEN client'[p].existing = <<[content |-> file.body, sha |-> file.rev]>>
                ELSE client'[p].existing = <<>>
       /\ (client[p].pc = "put" /\ client'[p].pc = "done") =>
             /\ client'[p].token # <<>> <=> client[p].got = "document"
             /\ client'[p].token # <<>> => client'[p].token = <<client[p].existing[1].sha>>
             /\ file' # file <=> client'[p].out = "returned"
             /\ file' = file => client'[p].out = "raised"]_vars

\* one call read no document although the file exists, sent no sha and
\* raised; the other sent the sha it read and returned
C33_Witness ==
  /\ file.exists
  /\ client["g1"].pc = "done" /\ client["g1"].got = "not json"
  /\ client["g1"].token = <<>> /\ client["g1"].out = "raised"
  /\ client["g2"].pc = "done" /\ client["g2"].got = "document"
  /\ client["g2"].token # <<>> /\ client["g2"].out = "returned"

\* the positions of a run in the order the handlers go through them
StageOrder ==
  <<"idle", "fetch", "rawRead", "rawSha", "rawPut", "globSha", "globPut",
    "lightRead", "lightSha", "lightPut", "done", "failed">>

StageNo(stage) == CHOOSE i \in 1..Len(StageOrder) : StageOrder[i] = stage

Terminal == {"done", "failed"}

\* C34: every pipeline run, FGI updater run and regenerate run that has
\* started eventually is done or failed and has a response; a run gets its
\* response once, when it becomes done or failed, and keeps it until it is
\* delivered; and a run only moves forward through its steps, none is taken
\* twice.
C34_RunsTerminate ==
  /\ \A p \in Procs :
        (pc[p] # "idle") ~> (pc[p] \in Terminal /\ resp[p] # "none")
  /\ [](\A p \in Procs : resp[p] # "none" <=> pc[p] \in Terminal)
  /\ [][\A p \in Procs :
          /\ resp'[p] # resp[p] =>
                \/ resp[p] = "none" /\ pc[p] \notin Terminal /\ pc'[p] \in Terminal
                \/ resp'[p] = "none" /\ pc[p] \in Terminal /\ pc'[p] = "idle"
          /\ (pc'[p] # pc[p] /\ pc[p] \notin Terminal) =>
                StageNo(pc'[p]) > StageNo(pc[p])
          /\ pc[p] \in Terminal => pc'[p] \in {pc[p], "idle"}]_vars

\* a pipeline run is done, the regenerate run has failed at its write and
\* the store has been written
C34_Witness ==
  /\ pc["c1"] = "done" /\ resp["c1"] = "200 success"
  /\ pc["r1"] = "failed" /\ failStage["r1"] = "lightWrite"
  /\ light.exists

====
